---- MODULE Spec2Model ----
(***************************************************************************)
(* A model of textual-window: the WindowManager singleton (registry map,   *)
(* recent focus order, bound window bar, close-all handshake), the Window  *)
(* open / minimize / close life cycle with its animation completion        *)
(* callbacks, the WindowBar's per-window buttons, and the geometry of a     *)
(* window: first layout, starting position, maximize / restore, snapping,  *)
(* reset, the pointer handlers of its Resizer and TitleBar, the screen's   *)
(* layer stack, and the manager's table of mounting callbacks.             *)
(*                                                                         *)
(* Every handler is one action.  A handler's body is written as a function *)
(* from a record of the program's fields to the record after the call      *)
(* (field "err" holds the exception that left the call, "trace" the        *)
(* observable events of the step in order); an exception stops the rest of *)
(* the handler exactly as it does in Python.                               *)
(*                                                                         *)
(* Host framework (Textual) behaviour assumed by the model:                *)
(*   - styles.animate(..., on_complete=cb) queues cb; it runs later, once. *)
(*     The host is taken to run every animation to completion ("queue").   *)
(*     SpecAnimated also covers an animator that keeps one animation per   *)
(*     attribute: a new one replaces the running one and its callback      *)
(*     ("latest"), or is dropped when it has the same target ("same").     *)
(*   - a reactive's watcher runs only when the assigned value differs.     *)
(*   - @work methods run later, in the order they were started.            *)
(*   - call_after_refresh(cb) runs cb later, at the next refresh.          *)
(*   - clamp(v, lo, hi) is min(max(v, lo), hi); the model only draws       *)
(*     configurations with lo <= hi.  Size - Size stops at 0.              *)
(*   - the Window's own style has no border or padding (DEFAULT_CSS), so   *)
(*     Widget.size is styles.width x styles.height once a handler returns. *)
(*   - pointer events go to the widget that captured the mouse.            *)
(*   - Widget.screen raises NoScreen for a widget that is not in the DOM   *)
(*     (not mounted yet, or removed); Widget.layer is styles.layer, or     *)
(*     "default" when no layer is set; Screen.layers is the screen's       *)
(*     layers rule ("default" when unset) followed by the built-in layers. *)
(*   - an awaited mounting callback ends normally or with an exception.    *)
(* Sizes are in cells, scaled down: the parent area is at most MaxSide     *)
(* cells wide and high.  A style value 0 stands for "not set".  Of         *)
(* styles_dict only width and height are modelled; allow_resize is true.   *)
(*                                                                         *)
(* A run holds at most MaxOps external events (constructions, layout-ready *)
(* events, requests); the steps the framework takes by itself (animation   *)
(* completions, workers, refresh callbacks) are not counted.  Pointer      *)
(* events have a budget of their own, MaxPointer.                          *)
(***************************************************************************)
EXTENDS Integers, Sequences, FiniteSets, TLC

\* ---------------------------------------------------------------- bounds
NumWindows == 4     \* Window objects that may be constructed
NumIds     == 2     \* distinct non-empty id strings
NumBars    == 2     \* WindowBar objects
MaxPending == 2     \* animation callbacks queued per window
MaxBarQueue == 2    \* bar workers started and not yet run
MaxOps == 3         \* external events: constructions, layout-ready events, requests

MaxSide == 3        \* largest side of the parent area, in cells
MaxMove == 1        \* largest step of a title-bar drag, per axis
MaxPointer == 3     \* pointer events: button down, move, button up
MaxPlaceSide == 6   \* largest side of the parent area when placing a window

Wins == 1..NumWindows
Ids  == 1..NumIds
Bars == 1..NumBars
None == 0
EmptyId == 0

\* The id string handed to Window(id=...): two Window objects may be given
\* the same id, and one is given the empty string.
WinId(w) == w % (NumIds + 1)

VARIABLES
    windows,                     \* manager._windows (dict, insertion ordered)
    recent_focus_order,          \* manager._recent_focus_order
    last_focused_window,         \* manager._last_focused_window
    windowbar,                   \* manager._windowbar
    closing_in_progress,         \* manager._closing_in_progress
    num_of_temporary_windows,    \* manager._num_of_temporary_windows
    checked_in_closing_windows,  \* manager._checked_in_closing_windows
    life,                        \* per Window: "none" | "live" | "removed"
    window_mode,                 \* Window.window_mode
    animated,                    \* Window.animated
    open_state,                  \* Window.open_state
    display,                     \* Window.display
    pending,                     \* per Window: queued close_animation_callback(remove)
    ready,                       \* per Window: position in _dom_ready
    buttons,                     \* ids that have a WindowBarButton on the bound bar
    barQueue,                    \* bar workers started, not yet run
    parent_size,                 \* Window.parent.size, <<width, height>>
    css,                         \* per Window: the CSS min / max / size (0: not set)
    args,                        \* per Window: the other constructor arguments
    start_open,                  \* Window.start_open
    initialized,                 \* Window.initialized
    size,                        \* Window.size = styles.width, styles.height
    offset,                      \* Window.offset
    min_size,                    \* Window.min_width, min_height
    max_size,                    \* Window.max_width, max_height (<<0, 0>>: None)
    starting_size,               \* Window.starting_width, starting_height
    saved_size,                  \* Window.saved_size (<<>>: None)
    saved_offset,                \* Window.saved_offset (<<>>: None)
    snap_state,                  \* Window.snap_state
    maximize_state,              \* Window.maximize_state
    resizer,                     \* per Window: the Resizer's fields
    mouse_captured,              \* App.mouse_captured
    after_refresh,               \* per Window: queued call_after_refresh(clamp)
    mounting_callbacks,          \* manager._mounting_callbacks (dict)
    current_layer,               \* Window._current_layer (class variable)
    layer_index,                 \* Window.layer_index (-1: not assigned)
    styles_layer,                \* Window.styles.layer (<<>>: not set)
    layers,                      \* screen.styles.layers (<<>>: rule not set)
    animator,                    \* how the app's animator treats a second animation
    chrome,                      \* per Window and chrome button: its fields
    lastOp,                      \* the handler that ran last, its error and events
    ops,                         \* external events so far
    pointer_events,              \* pointer events so far
    caPhase,                     \* close-all observation: "none" | "wait" | "idle"
    caTemp,                      \* temporary windows registered at the close_all call
    caPerm,                      \* permanent windows registered at the close_all call
    caOverlap,                   \* the last close_all call came while a handshake was in flight
    armed                        \* per chrome button: left press seen, no release or leave since

mgrVars == <<windows, recent_focus_order, last_focused_window, windowbar,
             closing_in_progress, num_of_temporary_windows,
             checked_in_closing_windows>>
winVars == <<life, window_mode, animated, open_state, display, pending, ready>>
barVars == <<buttons, barQueue>>
cfgVars == <<parent_size, css, args, start_open>>
geoVars == <<initialized, size, offset, min_size, max_size, starting_size,
             saved_size, saved_offset, snap_state, maximize_state, resizer,
             mouse_captured, after_refresh>>
appVars == <<mounting_callbacks, current_layer, layer_index, styles_layer, layers,
             animator, chrome>>
obsVars == <<lastOp, ops, pointer_events, caPhase, caTemp, caPerm, caOverlap, armed>>
vars == <<mgrVars, winVars, barVars, cfgVars, geoVars, appVars, obsVars>>

\* ------------------------------------------------------- list and dict helpers
InSeq(x, seq) == \E i \in 1..Len(seq) : seq[i] = x
IndexOf(x, seq) == CHOOSE i \in 1..Len(seq) :
                       seq[i] = x /\ \A j \in 1..(i - 1) : seq[j] # x
\* list.remove(x): drops the first occurrence (the caller checks x is there)
ListRemove(seq, x) == LET i == IndexOf(x, seq)
                      IN  SubSeq(seq, 1, i - 1) \o SubSeq(seq, i + 1, Len(seq))
ListInsert0(seq, x) == <<x>> \o seq
SeqSet(seq) == {seq[i] : i \in 1..Len(seq)}
NoDup(seq) == \A i, j \in 1..Len(seq) : seq[i] = seq[j] => i = j

\* The dict _windows is the sequence of its values in insertion order; the key
\* of a value is its id.
HasKey(d, id) == \E i \in 1..Len(d) : WinId(d[i]) = id
KeyIndex(d, id) == CHOOSE i \in 1..Len(d) : WinId(d[i]) = id
DictGet(d, id) == d[KeyIndex(d, id)]
\* d[id] = w: an existing key keeps its position, a new key goes last
DictPut(d, w) == IF HasKey(d, WinId(w))
                 THEN [d EXCEPT ![KeyIndex(d, WinId(w))] = w]
                 ELSE Append(d, w)
DictPop(d, id) == LET i == KeyIndex(d, id)
                  IN  SubSeq(d, 1, i - 1) \o SubSeq(d, i + 1, Len(d))

\* ------------------------------------------------------------ the state record
Cur == [windows |-> windows,
        recent_focus_order |-> recent_focus_order,
        last_focused_window |-> last_focused_window,
        windowbar |-> windowbar,
        closing_in_progress |-> closing_in_progress,
        num_of_temporary_windows |-> num_of_temporary_windows,
        checked_in_closing_windows |-> checked_in_closing_windows,
        life |-> life, window_mode |-> window_mode, animated |-> animated,
        open_state |-> open_state, display |-> display, pending |-> pending,
        ready |-> ready, buttons |-> buttons, barQueue |-> barQueue,
        parent_size |-> parent_size, css |-> css, args |-> args,
        start_open |-> start_open, initialized |-> initialized,
        size |-> size, offset |-> offset, min_size |-> min_size,
        max_size |-> max_size, starting_size |-> starting_size,
        saved_size |-> saved_size, saved_offset |-> saved_offset,
        snap_state |-> snap_state, maximize_state |-> maximize_state,
        resizer |-> resizer, mouse_captured |-> mouse_captured,
        after_refresh |-> after_refresh,
        mounting_callbacks |-> mounting_callbacks,
        current_layer |-> current_layer, layer_index |-> layer_index,
        styles_layer |-> styles_layer, layers |-> layers,
        animator |-> animator, chrome |-> chrome,
        err |-> "none", trace |-> <<>>]

Ok(s) == s.err = "none"
Raise(s, e) == IF Ok(s) THEN [s EXCEPT !.err = e] ELSE s
Log(s, ev) == [s EXCEPT !.trace = Append(@, ev)]

\* The callback_id strings an application registers mounting callbacks under
CallbackIds == {"main", "side"}
\* The mounting callbacks an application may hand to the manager: two that
\* mount the window into a container, one whose own code fails a dict lookup
\* (KeyError) and one that fails with another exception
Callbacks == {"mount_main", "mount_side", "lookup_fails", "mount_fails"}
NoCallback == "absent"

Registered(w) == InSeq(w, windows)
Idle == /\ closing_in_progress = FALSE
        /\ num_of_temporary_windows = 0
        /\ checked_in_closing_windows = 0
IdleIn(s) == /\ s.closing_in_progress = FALSE
             /\ s.num_of_temporary_windows = 0
             /\ s.checked_in_closing_windows = 0

\* The CSS of a window: min-width / min-height, max-width / max-height and
\* width / height in cells; 0 stands for a property that is not set
DefaultCss == [min |-> <<1, 1>>, max |-> <<0, 0>>, size |-> <<2, 2>>]

\* The constructor arguments of a window besides id, mode, animated and
\* start_open; styles_dict gives width and height or is None (<<>>)
DefaultArgs == [start_snapped |-> TRUE,
                starting_horizontal |-> "center",
                starting_vertical |-> "middle",
                allow_maximize |-> FALSE,
                styles_dict |-> <<>>]

\* The buttons of a window's top bar that act on the window, and the fields
\* of one of them after its constructor
ChromeButtons == {"close", "minimize", "maximize"}
NewButton == [click_started_on |-> FALSE, pressed |-> FALSE]

\* The Resizer of a window before set_max_min and before any mouse-down
NewResizer == [min |-> <<0, 0>>, max |-> <<0, 0>>,
               position_on_down |-> <<0, 0>>, size_on_down |-> <<0, 0>>]

\* The fields after WindowManager.__init__, with no Window constructed yet
Fresh == [windows |-> <<>>,
          recent_focus_order |-> <<>>,
          last_focused_window |-> None,
          windowbar |-> None,
          closing_in_progress |-> FALSE,
          num_of_temporary_windows |-> 0,
          checked_in_closing_windows |-> 0,
          life |-> [w \in Wins |-> "none"],
          window_mode |-> [w \in Wins |-> "temporary"],
          animated |-> [w \in Wins |-> FALSE],
          open_state |-> [w \in Wins |-> FALSE],
          display |-> [w \in Wins |-> FALSE],
          pending |-> [w \in Wins |-> <<>>],
          ready |-> [w \in Wins |-> "new"],
          buttons |-> {},
          barQueue |-> <<>>,
          parent_size |-> <<MaxSide, MaxSide>>,
          css |-> [w \in Wins |-> DefaultCss],
          args |-> [w \in Wins |-> DefaultArgs],
          start_open |-> [w \in Wins |-> FALSE],
          initialized |-> [w \in Wins |-> FALSE],
          size |-> [w \in Wins |-> <<0, 0>>],
          offset |-> [w \in Wins |-> <<0, 0>>],
          min_size |-> [w \in Wins |-> <<0, 0>>],
          max_size |-> [w \in Wins |-> <<0, 0>>],
          starting_size |-> [w \in Wins |-> <<0, 0>>],
          saved_size |-> [w \in Wins |-> <<>>],
          saved_offset |-> [w \in Wins |-> <<>>],
          snap_state |-> [w \in Wins |-> TRUE],
          maximize_state |-> [w \in Wins |-> FALSE],
          resizer |-> [w \in Wins |-> NewResizer],
          mouse_captured |-> <<>>,
          after_refresh |-> [w \in Wins |-> 0],
          mounting_callbacks |-> [i \in CallbackIds |-> NoCallback],
          current_layer |-> 0,
          layer_index |-> [w \in Wins |-> -1],
          styles_layer |-> [w \in Wins |-> <<>>],
          layers |-> <<>>,
          animator |-> "queue",
          chrome |-> [w \in Wins |-> [k \in ChromeButtons |-> NewButton]],
          err |-> "none", trace |-> <<>>]

StartIn(s) ==
    /\ windows = s.windows
    /\ recent_focus_order = s.recent_focus_order
    /\ last_focused_window = s.last_focused_window
    /\ windowbar = s.windowbar
    /\ closing_in_progress = s.closing_in_progress
    /\ num_of_temporary_windows = s.num_of_temporary_windows
    /\ checked_in_closing_windows = s.checked_in_closing_windows
    /\ life = s.life
    /\ window_mode = s.window_mode
    /\ animated = s.animated
    /\ open_state = s.open_state
    /\ display = s.display
    /\ pending = s.pending
    /\ ready = s.ready
    /\ buttons = s.buttons
    /\ barQueue = s.barQueue
    /\ parent_size = s.parent_size
    /\ css = s.css
    /\ args = s.args
    /\ start_open = s.start_open
    /\ initialized = s.initialized
    /\ size = s.size
    /\ offset = s.offset
    /\ min_size = s.min_size
    /\ max_size = s.max_size
    /\ starting_size = s.starting_size
    /\ saved_size = s.saved_size
    /\ saved_offset = s.saved_offset
    /\ snap_state = s.snap_state
    /\ maximize_state = s.maximize_state
    /\ resizer = s.resizer
    /\ mouse_captured = s.mouse_captured
    /\ after_refresh = s.after_refresh
    /\ mounting_callbacks = s.mounting_callbacks
    /\ current_layer = s.current_layer
    /\ layer_index = s.layer_index
    /\ styles_layer = s.styles_layer
    /\ layers = s.layers
    /\ animator = s.animator
    /\ chrome = s.chrome
    /\ armed = [w \in Wins |-> [k \in ChromeButtons |-> FALSE]]
    /\ lastOp = [name |-> "init", win |-> None, err |-> "none", trace |-> <<>>]
    /\ ops = 0
    /\ pointer_events = 0
    /\ caPhase = "none"
    /\ caTemp = {}
    /\ caPerm = {}
    /\ caOverlap = FALSE

Init == StartIn(Fresh)

\* ------------------------------------------------------------- WindowManager
\* register_window that files the window in the focus order before it looks
\* at the id
register_window_appends_first(s, w) ==
    LET s1 == [s EXCEPT !.recent_focus_order = Append(@, w)]
    IN  IF WinId(w) # EmptyId
        THEN [s1 EXCEPT !.windows = DictPut(@, w)]
        ELSE Raise(s1, "ValueError")

\* WindowManager.register_window
register_window(s, w) ==
    IF WinId(w) # EmptyId
    THEN [s EXCEPT !.windows = DictPut(@, w),
                   !.recent_focus_order = Append(@, w)]
    ELSE Raise(s, "ValueError")

\* The tail of unregister_window: the close-all handshake bookkeeping
handshake_check_in(s, w) ==
    IF ~s.closing_in_progress THEN s
    ELSE LET s1 == IF s.window_mode[w] = "temporary"
                   THEN [s EXCEPT !.checked_in_closing_windows = @ + 1]
                   ELSE s
         IN  IF s1.checked_in_closing_windows = s1.num_of_temporary_windows
             THEN [s1 EXCEPT !.checked_in_closing_windows = 0,
                             !.num_of_temporary_windows = 0,
                             !.closing_in_progress = FALSE]
             ELSE s1

\* WindowBar.remove_window_button: a worker is started, it runs later
remove_window_button(s, w) ==
    Log([s EXCEPT !.barQueue = Append(@, <<"remove", w>>)], <<"bar_remove", w>>)

\* WindowManager.unregister_window once the id was found in the map
unregister_found(s, w) ==
    LET s1 == [s EXCEPT !.windows = DictPop(@, WinId(w))]
    IN  IF ~InSeq(w, s1.recent_focus_order)
        THEN Raise(s1, "ValueError(list.remove)")
        ELSE LET s2 == [s1 EXCEPT !.recent_focus_order = ListRemove(@, w)]
                 s3 == IF s2.windowbar # None
                       THEN remove_window_button(s2, w) ELSE s2
                 s4 == Log(s3, <<"publish", w>>)
             IN  handshake_check_in(s4, w)

\* unregister_window without the "not found" error: an absent id only checks in
unregister_window_ignores_absent(s, w) ==
    IF ~HasKey(s.windows, WinId(w))
    THEN handshake_check_in(Log(s, <<"unregister_window", w>>), w)
    ELSE unregister_found(Log(s, <<"unregister_window", w>>), w)

\* WindowManager.unregister_window
unregister_window(s, w) ==
    IF ~HasKey(s.windows, WinId(w))
    THEN Raise(Log(s, <<"unregister_window", w>>), "ValueError")
    ELSE unregister_found(Log(s, <<"unregister_window", w>>), w)

\* WindowBar.update_window_button_state: query_one raises NoMatches when the
\* bar has no button with the window's id
update_window_button_state(s, w, state) ==
    IF WinId(w) \in s.buttons
    THEN Log(s, <<"bar_state", w, state>>)
    ELSE Raise(s, "NoMatches")

\* WindowManager.signal_window_state
signal_window_state(s, w, state) ==
    IF s.windowbar # None THEN update_window_button_state(s, w, state) ELSE s

\* change_window_focus_order that takes in a window the list does not hold
change_window_focus_order_inserts_absent(s, w) ==
    IF s.recent_focus_order # <<>>
    THEN IF InSeq(w, s.recent_focus_order)
         THEN [s EXCEPT !.recent_focus_order = ListInsert0(ListRemove(@, w), w),
                        !.last_focused_window = w]
         ELSE [s EXCEPT !.recent_focus_order = ListInsert0(@, w),
                        !.last_focused_window = w]
    ELSE IF ~s.closing_in_progress
         THEN Raise(s, "RuntimeError")
         ELSE [s EXCEPT !.last_focused_window = w]

\* change_window_focus_order with the window put last instead of first
change_window_focus_order_appends(s, w) ==
    IF s.recent_focus_order # <<>>
    THEN IF InSeq(w, s.recent_focus_order)
         THEN [s EXCEPT !.recent_focus_order = Append(ListRemove(@, w), w),
                        !.last_focused_window = w]
         ELSE Raise(s, "ValueError(list.remove)")
    ELSE IF ~s.closing_in_progress
         THEN Raise(s, "RuntimeError")
         ELSE [s EXCEPT !.last_focused_window = w]

\* WindowManager.change_window_focus_order
change_window_focus_order(s, w) ==
    IF s.recent_focus_order # <<>>
    THEN IF InSeq(w, s.recent_focus_order)
         THEN [s EXCEPT !.recent_focus_order = ListInsert0(ListRemove(@, w), w),
                        !.last_focused_window = w]
         ELSE Raise(s, "ValueError(list.remove)")
    ELSE IF ~s.closing_in_progress
         THEN Raise(s, "RuntimeError")
         ELSE [s EXCEPT !.last_focused_window = w]

\* register_windowbar without the "already bound" check
register_windowbar_overwrites(s, b) == [s EXCEPT !.windowbar = b]

\* WindowManager.register_windowbar
register_windowbar(s, b) ==
    IF s.windowbar = None
    THEN [s EXCEPT !.windowbar = b]
    ELSE Raise(s, "RuntimeError")

\* WindowManager.unregister_windowbar, called by WindowBar._on_unmount: the
\* bar leaves with its buttons and its workers
unregister_windowbar(s) ==
    IF s.windowbar # None
    THEN [s EXCEPT !.windowbar = None, !.buttons = {}, !.barQueue = <<>>]
    ELSE Raise(s, "RuntimeError")

\* -------------------------------------------------------------------- Window
\* A removal that posts Closed and removes the widget before it unregisters
execute_remove_posts_first(s, w) ==
    LET s1 == Log(s, <<"Closed", w>>)
        s2 == Log([s1 EXCEPT !.life[w] = "removed"], <<"remove", w>>)
    IN  unregister_window(s2, w)

\* Window._execute_remove
execute_remove(s, w) ==
    LET s1 == unregister_window(s, w)
    IN  IF ~Ok(s1) THEN s1
        ELSE LET s2 == Log(s1, <<"Closed", w>>)
             IN  Log([s2 EXCEPT !.life[w] = "removed"], <<"remove", w>>)

\* close_animation_callback inside Window._close_animation
close_animation_callback(s, w, remove) ==
    IF remove
    THEN execute_remove(s, w)
    ELSE signal_window_state(
             Log([s EXCEPT !.display[w] = FALSE], <<"Minimized", w>>), w, FALSE)

\* _close_animation without the animated test: the callback is never deferred
close_animation_never_waits(s, w, remove) ==
    IF s.display[w]
    THEN close_animation_callback(s, w, remove)
    ELSE IF remove THEN execute_remove(s, w) ELSE s

\* _close_animation without the display test: a hidden window is faded too
close_animation_always_waits(s, w, remove) ==
    IF s.animated[w]
    THEN [s EXCEPT !.pending[w] = Append(@, remove)]
    ELSE close_animation_callback(s, w, remove)

\* styles.animate("opacity", 0.0, on_complete=callback) while an earlier
\* animation of the window's opacity may still be running: the callback
\* joins the ones that are waiting, or, with an animator that keeps one
\* animation per attribute, takes their place, or is dropped because a
\* fade-out with the same target and duration is already running
animate_close(s, w, remove) ==
    CASE s.animator = "latest" -> [s EXCEPT !.pending[w] = <<remove>>]
      [] s.animator = "same" ->
             IF s.pending[w] = <<>> THEN [s EXCEPT !.pending[w] = <<remove>>] ELSE s
      [] OTHER -> [s EXCEPT !.pending[w] = Append(@, remove)]

\* styles.animate("opacity", 1.0), which has no completion callback
animate_open(s, w) ==
    IF s.animator \in {"latest", "same"} THEN [s EXCEPT !.pending[w] = <<>>] ELSE s

\* Window._close_animation
close_animation(s, w, remove) ==
    IF s.display[w]
    THEN IF s.animated[w]
         THEN animate_close(s, w, remove)
         ELSE close_animation_callback(s, w, remove)
    ELSE IF remove THEN execute_remove(s, w) ELSE s

\* Window._open_animation
open_animation(s, w) ==
    LET s1 == [s EXCEPT !.display[w] = TRUE]
        s2 == IF s.animated[w] THEN animate_open(s1, w) ELSE s1
    IN  signal_window_state(Log(s2, <<"Opened", w>>), w, TRUE)

\* Assignment to the reactive open_state and Window.watch_open_state
set_open_state(s, w, value) ==
    IF ~Ok(s) \/ s.open_state[w] = value THEN s
    ELSE LET s1 == [s EXCEPT !.open_state[w] = value]
         IN  IF value THEN open_animation(s1, w)
                      ELSE close_animation(s1, w, FALSE)

\* Window.remove_window / Window.close_window
remove_window(s, w) == IF Ok(s) THEN close_animation(s, w, TRUE) ELSE s

\* action_close_window without the mode test
action_close_window_any_mode(s, w) == remove_window(s, w)

\* Window.action_close_window
action_close_window(s, w) ==
    IF s.window_mode[w] = "temporary"
    THEN remove_window(s, w)
    ELSE set_open_state(s, w, FALSE)

\* WindowBarMenu.button_pressed, the "close" entry
menu_close(s, w) ==
    IF s.window_mode[w] = "temporary"
    THEN remove_window(s, w)
    ELSE set_open_state(s, w, FALSE)

\* Window.__init__
window_init(s, w, mode, anim, start) ==
    IF WinId(w) = EmptyId THEN Raise(s, "ValueError")
    ELSE LET s1 == [s EXCEPT !.window_mode[w] = mode,
                             !.layer_index[w] = s.current_layer,
                             !.current_layer = @ + 1,
                             !.animated[w] = anim,
                             !.display[w] = start,
                             !.start_open[w] = start,
                             !.open_state[w] = start,
                             !.size[w] = s.css[w].size,
                             !.snap_state[w] = s.args[w].start_snapped]
             s2 == register_window(s1, w)
         IN  IF Ok(s2) THEN [s2 EXCEPT !.life[w] = "live"] ELSE s2

\* ---------------------------------------------------------------- the layers
\* A layer name: f"window{layer_index}" for a window, "default", and the
\* layers Textual adds to every screen, whose names start with "_"
LayerName(index) == <<"window", index>>
DefaultLayer == <<"default", 0>>
BuiltinLayers == << <<"_loading", 0>>, <<"_toastrack", 0>>, <<"_tooltips", 0>> >>
StartsWithUnderscore(layer) == InSeq(layer, BuiltinLayers)

\* screen.layers: the layers rule of the screen, or "default" when the rule
\* is not set, followed by the built-in layers
screen_layers(s) ==
    (IF s.layers = <<>> THEN <<DefaultLayer>> ELSE s.layers) \o BuiltinLayers

\* Widget.layer of a window: styles.layer, or "default" when it is not set
widget_layer(s, w) ==
    IF s.styles_layer[w] = <<>> THEN DefaultLayer ELSE s.styles_layer[w]

\* A window has a screen from its mount until it is removed
HasScreen(s, w) == s.life[w] = "live" /\ s.ready[w] # "new"

\* The head of Window._compose: the window's layer joins the screen's stack
compose(s, w) ==
    LET layer == LayerName(s.layer_index[w])
        current_layers == screen_layers(s)
        s1 == IF ~InSeq(layer, current_layers)
              THEN [s EXCEPT !.layers =
                       Append(SelectSeq(current_layers,
                                  LAMBDA x : ~StartsWithUnderscore(x)), layer)]
              ELSE s
    IN  [s1 EXCEPT !.styles_layer[w] = layer]

\* bring_forward that appends the window's layer and leaves the old entry
bring_forward_keeps_old(s, w) ==
    IF ~HasScreen(s, w) THEN Raise(s, "NoScreen")
    ELSE [s EXCEPT !.layers = Append(@, s.styles_layer[w])]

\* Window.bring_forward; self.screen raises NoScreen outside the DOM
bring_forward(s, w) ==
    IF ~HasScreen(s, w) THEN Raise(s, "NoScreen")
    ELSE LET layer == widget_layer(s, w)
         IN  [s EXCEPT !.layers =
                 Append(SelectSeq(@, LAMBDA x : x # layer), s.styles_layer[w])]

\* Window.auto_bring_forward, as the constructor sets it
auto_bring_forward == TRUE

\* Window._on_focus
on_focus(s, w) ==
    LET s1 == change_window_focus_order(s, w)
    IN  IF Ok(s1) /\ auto_bring_forward THEN bring_forward(s1, w) ELSE s1

\* Window._on_mouse_down: a button press anywhere in the window
on_mouse_down(s, w) == bring_forward(s, w)

\* ------------------------------------------------------- mounting callbacks
\* WindowManager.register_mounting_callback: an id that is taken is logged
\* and overwritten
register_mounting_callback(s, callback, callback_id) ==
    LET s0 == Log(s, <<"register_mounting_callback", callback_id, callback>>)
        s1 == IF s0.mounting_callbacks[callback_id] # NoCallback
              THEN Log(s0, <<"warning", "overwriting", callback_id>>)
              ELSE s0
    IN  [s1 EXCEPT !.mounting_callbacks[callback_id] = callback]

\* What awaiting callback(window) does: the exception it ends with, if any
callback_call(s, callback, w) ==
    LET s1 == Log(s, <<"callback", callback, w>>)
    IN  CASE callback = "lookup_fails" -> Raise(s1, "KeyError")
          [] callback = "mount_fails" -> Raise(s1, "MountError")
          [] OTHER -> s1

\* WindowManager.mount_window: the lookup and the call share one try block
\* whose handler turns every KeyError into the "no callback" KeyError
mount_window(s, w, callback_id) ==
    LET s0 == Log(s, <<"mount_window", w, callback_id>>)
    IN  IF s0.mounting_callbacks[callback_id] = NoCallback
        THEN Raise(s0, "KeyError(No mounting callback registered)")
        ELSE LET s1 == callback_call(s0, s0.mounting_callbacks[callback_id], w)
             IN  IF s1.err = "KeyError"
                 THEN [s1 EXCEPT !.err = "KeyError(No mounting callback registered)"]
                 ELSE s1

\* ------------------------------------------------------------------ geometry
\* textual.geometry.clamp for minimum <= maximum (the only use the model makes)
clamp(value, minimum, maximum) ==
    IF value < minimum THEN minimum
    ELSE IF value > maximum THEN maximum ELSE value

\* textual.geometry.Size.__sub__: neither side goes below 0
SizeSub(a, b) ==
    << IF a[1] > b[1] THEN a[1] - b[1] ELSE 0,
       IF a[2] > b[2] THEN a[2] - b[2] ELSE 0 >>

Horizontals == {"left", "centerleft", "center", "centerright", "right"}
Verticals == {"top", "uppermiddle", "middle", "lowermiddle", "bottom"}

\* A table whose right-of-centre entry is two thirds of the way
starting_horizontals_thirds(x, h) ==
    CASE h = "left" -> 0
      [] h = "centerleft" -> x \div 4
      [] h = "center" -> x \div 2
      [] h = "centerright" -> x - (x \div 3)
      [] h = "right" -> x

\* The two dictionaries of Window._calculate_starting_position
starting_horizontals(x, h) ==
    CASE h = "left" -> 0
      [] h = "centerleft" -> x \div 4
      [] h = "center" -> x \div 2
      [] h = "centerright" -> x - (x \div 4)
      [] h = "right" -> x

starting_verticals(y, v) ==
    CASE v = "top" -> 0
      [] v = "uppermiddle" -> y \div 4
      [] v = "middle" -> y \div 2
      [] v = "lowermiddle" -> y - (y \div 4)
      [] v = "bottom" -> y

\* The offset Window._calculate_starting_position returns
starting_offset(parent, starting, h, v) ==
    LET free == SizeSub(parent, starting)
    IN  <<starting_horizontals(free[1], h), starting_verticals(free[2], v)>>

\* A calculation that returns the size it was asked for
calculate_all_sizes_unclamped(s, w) ==
    LET c == s.css[w]
        d == s.args[w].styles_dict
        max_width  == IF c.max[1] # 0 THEN c.max[1] ELSE s.parent_size[1]
        max_height == IF c.max[2] # 0 THEN c.max[2] ELSE s.parent_size[2]
        width0  == IF s.size[w][1] # 0 THEN s.size[w][1] ELSE max_width
        height0 == IF s.size[w][2] # 0 THEN s.size[w][2] ELSE max_height
        width  == IF d # <<>> THEN d[1] ELSE width0
        height == IF d # <<>> THEN d[2] ELSE height0
    IN  IF c.min[1] = 0 \/ c.min[2] = 0 THEN <<>>
        ELSE << <<width, height>>, c.min, <<max_width, max_height>> >>

\* Window._calculate_all_sizes: <<size, min_size, max_size>>, or <<>> when it
\* raises ValueError because a minimum is not set
calculate_all_sizes(s, w) ==
    LET c == s.css[w]
        d == s.args[w].styles_dict
        max_width  == IF c.max[1] # 0 THEN c.max[1] ELSE s.parent_size[1]
        max_height == IF c.max[2] # 0 THEN c.max[2] ELSE s.parent_size[2]
        width0  == IF s.size[w][1] # 0 THEN s.size[w][1] ELSE max_width
        height0 == IF s.size[w][2] # 0 THEN s.size[w][2] ELSE max_height
        width  == IF d # <<>> THEN d[1] ELSE width0
        height == IF d # <<>> THEN d[2] ELSE height0
    IN  IF c.min[1] = 0 \/ c.min[2] = 0 THEN <<>>
        ELSE << <<clamp(width, c.min[1], max_width),
                  clamp(height, c.min[2], max_height)>>,
                c.min,
                <<max_width, max_height>> >>

\* A position calculation that posts Initialized on every call
calculate_starting_position_always_posts(s, w) ==
    IF s.starting_size[w] = <<0, 0>> THEN Raise(s, "AssertionError")
    ELSE Log([s EXCEPT !.offset[w] =
                  starting_offset(s.parent_size, s.starting_size[w],
                                  s.args[w].starting_horizontal,
                                  s.args[w].starting_vertical),
                       !.initialized[w] = TRUE], <<"Initialized", w>>)

\* Window._calculate_starting_position, with the offset assigned by its caller
calculate_starting_position(s, w) ==
    IF s.starting_size[w] = <<0, 0>> THEN Raise(s, "AssertionError")
    ELSE LET s1 == [s EXCEPT !.offset[w] =
                       starting_offset(s.parent_size, s.starting_size[w],
                                       s.args[w].starting_horizontal,
                                       s.args[w].starting_vertical)]
         IN  IF ~s.initialized[w]
             THEN Log([s1 EXCEPT !.initialized[w] = TRUE], <<"Initialized", w>>)
             ELSE s1

\* Window.clamp_into_parent_area
clamp_into_parent_area(s, w) ==
    IF s.initialized[w]
    THEN LET free == SizeSub(s.parent_size, s.size[w])
         IN  [s EXCEPT !.offset[w] = <<clamp(@[1], 0, free[1]),
                                       clamp(@[2], 0, free[2])>>]
    ELSE s

\* Assignment to the reactive snap_state and Window.watch_snap_state
set_snap_state(s, w, value) ==
    IF ~Ok(s) \/ s.snap_state[w] = value THEN s
    ELSE LET s1 == [s EXCEPT !.snap_state[w] = value]
         IN  IF value THEN clamp_into_parent_area(s1, w) ELSE s1

\* self._top_bar.maximize_button: TopBar.compose sets the attribute only when
\* allow_maximize is true
maximize_button(s, w) ==
    IF s.args[w].allow_maximize THEN s ELSE Raise(s, "AttributeError")

\* A watcher that saves the rectangle only after it has grown the window
set_maximize_state_saves_late(s, w, value) ==
    IF ~Ok(s) \/ s.maximize_state[w] = value THEN s
    ELSE LET s1 == [s EXCEPT !.maximize_state[w] = value]
         IN  IF value
             THEN LET s2 == maximize_button(
                                [s1 EXCEPT !.saved_size[w] = s1.max_size[w],
                                           !.saved_offset[w] = s1.offset[w],
                                           !.size[w] = s1.max_size[w]], w)
                  IN  IF Ok(s2) THEN [s2 EXCEPT !.after_refresh[w] = @ + 1] ELSE s2
             ELSE IF s1.saved_size[w] = <<>> \/ s1.saved_offset[w] = <<>>
                  THEN Raise(s1, "AssertionError")
                  ELSE maximize_button(
                           [s1 EXCEPT !.size[w] = s1.saved_size[w],
                                      !.offset[w] = s1.saved_offset[w]], w)

\* Assignment to the reactive maximize_state and Window.watch_maximize_state
\* maximize_state declared with always_update: the watcher runs on every
\* assignment
set_maximize_state_always(s, w, value) ==
    IF ~Ok(s) THEN s
    ELSE LET s1 == [s EXCEPT !.maximize_state[w] = value]
         IN  IF value
             THEN LET s2 == maximize_button(
                                [s1 EXCEPT !.saved_size[w] = s1.size[w],
                                           !.saved_offset[w] = s1.offset[w],
                                           !.size[w] = s1.max_size[w]], w)
                  IN  IF Ok(s2) THEN [s2 EXCEPT !.after_refresh[w] = @ + 1] ELSE s2
             ELSE IF s1.saved_size[w] = <<>> \/ s1.saved_offset[w] = <<>>
                  THEN Raise(s1, "AssertionError")
                  ELSE maximize_button(
                           [s1 EXCEPT !.size[w] = s1.saved_size[w],
                                      !.offset[w] = s1.saved_offset[w]], w)

set_maximize_state(s, w, value) ==
    IF ~Ok(s) \/ s.maximize_state[w] = value THEN s
    ELSE LET s1 == [s EXCEPT !.maximize_state[w] = value]
         IN  IF value
             THEN LET s2 == maximize_button(
                                [s1 EXCEPT !.saved_size[w] = s1.size[w],
                                           !.saved_offset[w] = s1.offset[w],
                                           !.size[w] = s1.max_size[w]], w)
                  IN  IF Ok(s2) THEN [s2 EXCEPT !.after_refresh[w] = @ + 1] ELSE s2
             ELSE IF s1.saved_size[w] = <<>> \/ s1.saved_offset[w] = <<>>
                  THEN Raise(s1, "AssertionError")
                  ELSE maximize_button(
                           [s1 EXCEPT !.size[w] = s1.saved_size[w],
                                      !.offset[w] = s1.saved_offset[w]], w)

\* Window.reset_size
reset_size(s, w) ==
    LET r == calculate_all_sizes(s, w)
    IN  IF r = <<>> THEN Raise(s, "ValueError")
        ELSE [s EXCEPT !.size[w] = r[1], !.min_size[w] = r[2], !.max_size[w] = r[3]]

\* Window.reset_position
reset_position(s, w) == IF Ok(s) THEN calculate_starting_position(s, w) ELSE s

\* Window.reset_window
reset_window(s, w) ==
    LET s1 == reset_position(reset_size(s, w), w)
        s2 == set_snap_state(s1, w, s1.args[w].start_snapped)
    IN  set_open_state(s2, w, s2.start_open[w])

\* Resizer.set_max_min
set_max_min(s, w) ==
    [s EXCEPT !.resizer[w].min = s.min_size[w],
              !.resizer[w].max =
                  << IF s.max_size[w][1] # 0 THEN s.max_size[w][1] ELSE s.parent_size[1],
                     IF s.max_size[w][2] # 0 THEN s.max_size[w][2] ELSE s.parent_size[2] >>]

\* The size Resizer.on_mouse_move gives the window
resized(size_on_down, position_on_down, screen_offset, min, max) ==
    << clamp(size_on_down[1] + (screen_offset[1] - position_on_down[1]), min[1], max[1]),
       clamp(size_on_down[2] + (screen_offset[2] - position_on_down[2]), min[2], max[2]) >>

\* A handler that sizes the window from the previous event, not from the
\* mouse-down baseline
resizer_on_mouse_move_per_event(s, w, screen_offset) ==
    LET r  == s.resizer[w]
        s1 == Log(s, <<"mouse_move", screen_offset[1], screen_offset[2]>>)
    IN  IF s.mouse_captured = <<"Resizer", w>>
        THEN [s1 EXCEPT !.size[w] = resized(s.size[w], r.position_on_down,
                                            screen_offset, r.min, r.max),
                        !.resizer[w].position_on_down = screen_offset]
        ELSE s1

\* Resizer.on_mouse_move
resizer_on_mouse_move(s, w, screen_offset) ==
    LET r  == s.resizer[w]
        s1 == Log(s, <<"mouse_move", screen_offset[1], screen_offset[2]>>)
    IN  IF s.mouse_captured = <<"Resizer", w>>
        THEN [s1 EXCEPT !.size[w] = resized(r.size_on_down, r.position_on_down,
                                            screen_offset, r.min, r.max)]
        ELSE s1

\* Resizer.on_mouse_down
resizer_on_mouse_down(s, w, button, screen_offset) ==
    IF button = 1
    THEN change_window_focus_order(
             [s EXCEPT !.resizer[w].position_on_down = screen_offset,
                       !.resizer[w].size_on_down = s.size[w],
                       !.mouse_captured = <<"Resizer", w>>], w)
    ELSE s

\* Resizer.on_mouse_up
resizer_on_mouse_up(s, w) ==
    clamp_into_parent_area([s EXCEPT !.mouse_captured = <<>>], w)

\* TitleBar.on_mouse_move
titlebar_on_mouse_move(s, w, delta) ==
    IF s.mouse_captured = <<"TitleBar", w>>
    THEN LET s1 == [s EXCEPT !.offset[w] = <<@[1] + delta[1], @[2] + delta[2]>>]
         IN  IF ~s.snap_state[w] THEN s1 ELSE clamp_into_parent_area(s1, w)
    ELSE s

\* TitleBar.on_mouse_down
titlebar_on_mouse_down(s, w, button) ==
    IF button = 1
    THEN change_window_focus_order([s EXCEPT !.mouse_captured = <<"TitleBar", w>>], w)
    ELSE s

\* TitleBar.on_mouse_up
titlebar_on_mouse_up(s, w) == [s EXCEPT !.mouse_captured = <<>>]

\* WindowBar.initialized: set in WindowBar.__init__ and nowhere else
bar_initialized == FALSE

\* The loop of WindowBar._on_resize over manager.get_windows_as_list()
on_resize_loop(s, ws) ==
    [s EXCEPT !.after_refresh =
        [w \in Wins |-> IF InSeq(w, ws) /\ s.initialized[w] /\ s.snap_state[w]
                        THEN @[w] + 1 ELSE @[w]]]

\* WindowBar._on_resize, after the layout gave the windows' parent a new size
windowbar_on_resize(s, new_size) ==
    LET s1 == [s EXCEPT !.parent_size = new_size]
    IN  IF bar_initialized THEN on_resize_loop(s1, s1.windows) ELSE s1

\* A callback given to call_after_refresh(window.clamp_into_parent_area) runs
after_refresh_callback(s, w) ==
    clamp_into_parent_area([s EXCEPT !.after_refresh[w] = @ - 1], w)

\* ------------------------------------------------------- the chrome buttons
\* TopBar.compose: the buttons a window has
HasButton(s, w, k) ==
    \/ k = "minimize"
    \/ k = "maximize" /\ s.args[w].allow_maximize
    \/ k = "close" /\ s.window_mode[w] = "temporary"

\* What a release on an armed button calls: Window.close_window,
\* Window.minimize or Window.toggle_maximize
button_action(s, w, k) ==
    CASE k = "close" -> remove_window(s, w)
      [] k = "minimize" -> set_open_state(s, w, FALSE)
      [] OTHER -> set_maximize_state(s, w, ~s.maximize_state[w])

\* CloseButton / MinimizeButton / MaximizeButton .on_mouse_down
button_on_mouse_down(s, w, k, button) ==
    LET s0 == Log(s, <<"mouse_down", k, button>>)
    IN  IF button = 1
        THEN [s0 EXCEPT !.chrome[w][k] = [click_started_on |-> TRUE, pressed |-> TRUE]]
        ELSE s0

\* CloseButton / MinimizeButton / MaximizeButton .on_mouse_up: the flag is
\* reset after the action has returned
button_on_mouse_up(s, w, k) ==
    LET s0 == Log(s, <<"mouse_up", k, 0>>)
        s1 == [s0 EXCEPT !.chrome[w][k].pressed = FALSE]
    IN  IF s1.chrome[w][k].click_started_on
        THEN LET s2 == button_action(Log(s1, <<"action", k, w>>), w, k)
             IN  IF Ok(s2) THEN [s2 EXCEPT !.chrome[w][k].click_started_on = FALSE]
                           ELSE s2
        ELSE s1

\* CloseButton / MinimizeButton / MaximizeButton .on_leave
button_on_leave(s, w, k) ==
    [Log(s, <<"leave", k, 0>>) EXCEPT !.chrome[w][k] = NewButton]

\* ------------------------------------------------- actions on all the windows
RECURSIVE for_each_open_state(_, _, _)
for_each_open_state(s, ws, value) ==
    IF ws = <<>> \/ ~Ok(s) THEN s
    ELSE for_each_open_state(set_open_state(s, Head(ws), value), Tail(ws), value)

\* WindowManager.open_all_windows
open_all_windows(s) == for_each_open_state(s, s.windows, TRUE)

\* WindowManager.minimize_all_windows
minimize_all_windows(s) == for_each_open_state(s, s.windows, FALSE)

RECURSIVE for_each_snap_state(_, _, _)
for_each_snap_state(s, ws, value) ==
    IF ws = <<>> \/ ~Ok(s) THEN s
    ELSE for_each_snap_state(set_snap_state(s, Head(ws), value), Tail(ws), value)

\* WindowManager.snap_all_windows
snap_all_windows(s) == for_each_snap_state(s, s.windows, TRUE)

\* WindowManager.unsnap_all_windows
unsnap_all_windows(s) == for_each_snap_state(s, s.windows, FALSE)

RECURSIVE reset_all_loop(_, _)
reset_all_loop(s, ws) ==
    IF ws = <<>> \/ ~Ok(s) THEN s
    ELSE reset_all_loop(reset_window(s, Head(ws)), Tail(ws))

\* WindowManager.reset_all_windows
reset_all_windows(s) == reset_all_loop(s, s.windows)

NumTemporary(s) ==
    Cardinality({i \in 1..Len(s.windows) : s.window_mode[s.windows[i]] = "temporary"})

RECURSIVE close_all_loop(_, _)
close_all_loop(s, windows_copy) ==
    IF windows_copy = <<>> \/ ~Ok(s) THEN s
    ELSE LET w == Head(windows_copy)
             s1 == IF s.window_mode[w] = "temporary"
                   THEN remove_window(Log(s, <<"request", "remove_window", w>>), w)
                   ELSE set_open_state(Log(s, <<"request", "open_state", w>>), w, FALSE)
         IN  close_all_loop(s1, Tail(windows_copy))

\* WindowManager.close_all_windows
close_all_windows(s) ==
    LET s1 == [s EXCEPT !.num_of_temporary_windows = NumTemporary(s),
                        !.closing_in_progress = TRUE]
    IN  close_all_loop(s1, s.windows)

\* ------------------------------------------------------------------- workers
\* Window._dom_ready up to "await self.manager.window_ready(self)":
\* _calculate_starting_position posts Initialized once, window_ready starts the
\* bar's add_window_button worker when a bar is bound
dom_ready(s, w) ==
    LET r == calculate_all_sizes(s, w)
    IN  IF r = <<>> THEN Raise([s EXCEPT !.ready[w] = "done"], "ValueError")
        ELSE LET s0 == [s EXCEPT !.starting_size[w] = r[1], !.size[w] = r[1],
                                 !.min_size[w] = r[2], !.max_size[w] = r[3]]
                 s1 == set_max_min(calculate_starting_position(s0, w), w)
             IN  IF s1.windowbar # None
                 THEN [s1 EXCEPT !.barQueue = Append(@, <<"add", w>>),
                                 !.ready[w] = "wait"]
                 ELSE [s1 EXCEPT !.ready[w] = "done"]

\* Window._dom_ready after the button worker has finished
dom_ready_resume(s, w) ==
    signal_window_state([s EXCEPT !.ready[w] = "done"], w, s.display[w])

\* WindowBar.add_window_button and WindowBar.remove_window_button, as run
bar_worker(s) ==
    LET job == Head(s.barQueue)
        id  == WinId(job[2])
        s1  == [s EXCEPT !.barQueue = Tail(@)]
    IN  IF job[1] = "add"
        THEN IF id \in s1.buttons THEN Raise(s1, "DuplicateIds")
             ELSE [s1 EXCEPT !.buttons = @ \cup {id}]
        ELSE IF id \in s1.buttons THEN [s1 EXCEPT !.buttons = @ \ {id}]
             ELSE Raise(s1, "NoMatches")

\* The animator runs the oldest queued completion callback of a window
animation_complete(s, w) ==
    close_animation_callback([s EXCEPT !.pending[w] = Tail(@)], w, Head(s.pending[w]))

\* ------------------------------------------------------------------- actions
\* The cells of the screen a pointer event can report, and the offsets a window
\* is followed to
Screen == (0..MaxSide) \X (0..MaxSide)
Reach == ((0 - MaxMove)..MaxSide) \X ((0 - MaxMove)..MaxSide)
Deltas == ((0 - MaxMove)..MaxMove) \X ((0 - MaxMove)..MaxMove)
Buttons == {1, 3}

\* Sizes of the area the windows live in: a bar docked at the top or the
\* bottom takes a row from it when it is shown
ParentSizes == {<<MaxSide, MaxSide>>, <<MaxSide, MaxSide - 1>>}

WithinBounds(s) ==
    /\ Len(s.barQueue) <= MaxBarQueue
    /\ \A w \in Wins : /\ Len(s.pending[w]) <= MaxPending
                       /\ s.after_refresh[w] <= MaxPending

\* The step's observation of a close-all: the windows registered at the call,
\* and the first later state whose handshake fields are idle
\* A close-all handshake is in flight: some temporary windows have checked
\* in and others are still fading out
InFlight ==
    /\ closing_in_progress
    /\ checked_in_closing_windows > 0
    /\ \E w \in SeqSet(windows) : window_mode[w] = "temporary" /\ pending[w] # <<>>

ObserveCloseAll(s, name) ==
    IF name = "close_all_windows"
    THEN /\ caTemp' = {w \in SeqSet(windows) : window_mode[w] = "temporary"}
         /\ caPerm' = {w \in SeqSet(windows) : window_mode[w] = "permanent"}
         /\ caPhase' = IF IdleIn(s) THEN "idle" ELSE "wait"
    ELSE IF caPhase = "wait"
    THEN /\ caPhase' = IF IdleIn(s) THEN "idle" ELSE "wait"
         /\ UNCHANGED <<caTemp, caPerm>>
    ELSE /\ caPhase' = "none"
         /\ caTemp' = {}
         /\ caPerm' = {}

Observe(s, name) ==
    /\ caOverlap' = IF name = "close_all_windows" THEN InFlight ELSE caOverlap
    /\ ObserveCloseAll(s, name)

\* Steps the framework takes by itself; every other step is an external event
Internal == {"dom_ready_resume", "bar_worker", "animation_complete", "after_refresh"}

\* Pointer events, which have a budget of their own
Pointer == {"resizer_mouse_down", "resizer_mouse_move", "resizer_mouse_up",
            "titlebar_mouse_down", "titlebar_mouse_move", "titlebar_mouse_up",
            "window_mouse_down",
            "button_mouse_down", "button_mouse_up", "button_leave"}

\* The step's observation of a chrome button: a left-button press arms it,
\* a release or a leave disarms it
ObserveChrome(s, name, w) ==
    CASE name = "button_mouse_down" /\ Head(s.trace)[3] = 1 ->
             armed' = [armed EXCEPT ![w][Head(s.trace)[2]] = TRUE]
      [] name \in {"button_mouse_up", "button_leave"} ->
             armed' = [armed EXCEPT ![w][Head(s.trace)[2]] = FALSE]
      [] OTHER -> armed' = armed

Effects(s, name, w) ==
    /\ WithinBounds(s)
    /\ windows' = s.windows
    /\ recent_focus_order' = s.recent_focus_order
    /\ last_focused_window' = s.last_focused_window
    /\ windowbar' = s.windowbar
    /\ closing_in_progress' = s.closing_in_progress
    /\ num_of_temporary_windows' = s.num_of_temporary_windows
    /\ checked_in_closing_windows' = s.checked_in_closing_windows
    /\ life' = s.life
    /\ window_mode' = s.window_mode
    /\ animated' = s.animated
    /\ open_state' = s.open_state
    /\ display' = s.display
    /\ pending' = s.pending
    /\ ready' = s.ready
    /\ buttons' = s.buttons
    /\ barQueue' = s.barQueue
    /\ parent_size' = s.parent_size
    /\ css' = s.css
    /\ args' = s.args
    /\ start_open' = s.start_open
    /\ initialized' = s.initialized
    /\ size' = s.size
    /\ offset' = s.offset
    /\ min_size' = s.min_size
    /\ max_size' = s.max_size
    /\ starting_size' = s.starting_size
    /\ saved_size' = s.saved_size
    /\ saved_offset' = s.saved_offset
    /\ snap_state' = s.snap_state
    /\ maximize_state' = s.maximize_state
    /\ resizer' = s.resizer
    /\ mouse_captured' = s.mouse_captured
    /\ after_refresh' = s.after_refresh
    /\ mounting_callbacks' = s.mounting_callbacks
    /\ current_layer' = s.current_layer
    /\ layer_index' = s.layer_index
    /\ styles_layer' = s.styles_layer
    /\ layers' = s.layers
    /\ animator' = s.animator
    /\ chrome' = s.chrome
    /\ ObserveChrome(s, name, w)
    /\ lastOp' = [name |-> name, win |-> w, err |-> s.err, trace |-> s.trace]
    /\ Observe(s, name)

Commit(s, name, w) ==
    /\ \/ name \in Internal
       \/ name \in Pointer /\ pointer_events < MaxPointer
       \/ name \notin Pointer /\ ops < MaxOps
    /\ ops' = IF name \in Internal \cup Pointer THEN ops ELSE ops + 1
    /\ pointer_events' = IF name \in Pointer THEN pointer_events + 1 ELSE pointer_events
    /\ Effects(s, name, w)

Construct(w) ==
    /\ life[w] = "none"
    /\ \E mode \in {"temporary", "permanent"}, anim \in BOOLEAN, start \in BOOLEAN :
           Commit(window_init(Cur, w, mode, anim, start), "Window", w)

\* The mount of a window: Textual runs _compose, then _on_mount runs
\* _dom_ready
DomReady(w) ==
    /\ life[w] = "live" /\ ready[w] = "new"
    /\ Commit(dom_ready(compose(Cur, w), w), "dom_ready", w)

DomReadyResume(w) ==
    /\ life[w] = "live" /\ ready[w] = "wait"
    /\ ~InSeq(<<"add", w>>, barQueue)
    /\ Commit(dom_ready_resume(Cur, w), "dom_ready_resume", w)

BarWorker ==
    /\ barQueue # <<>>
    /\ Commit(bar_worker(Cur), "bar_worker", Head(barQueue)[2])

AnimationComplete(w) ==
    /\ pending[w] # <<>>
    /\ Commit(animation_complete(Cur, w), "animation_complete", w)

\* Window._on_focus
Focus(w) ==
    /\ life[w] \in {"live", "removed"}
    /\ Commit(on_focus(Cur, w), "focus", w)

\* Window._on_mouse_down
WindowMouseDown(w) ==
    /\ HasScreen(Cur, w)
    /\ Commit(on_mouse_down(Cur, w), "window_mouse_down", w)

\* WindowManager.register_window called by the application itself, with a
\* window that exists or with one whose id is empty
RegisterWindow(w) ==
    /\ life[w] \in {"live", "removed"} \/ WinId(w) = EmptyId
    /\ Commit(register_window(Cur, w), "register_window", w)

ButtonMouseDown(w) ==
    /\ HasScreen(Cur, w)
    /\ \E k \in ChromeButtons, button \in Buttons :
           /\ HasButton(Cur, w, k)
           /\ Commit(button_on_mouse_down(Cur, w, k, button), "button_mouse_down", w)

ButtonMouseUp(w) ==
    /\ HasScreen(Cur, w)
    /\ \E k \in ChromeButtons :
           /\ HasButton(Cur, w, k)
           /\ Commit(button_on_mouse_up(Cur, w, k), "button_mouse_up", w)

ButtonLeave(w) ==
    /\ HasScreen(Cur, w)
    /\ \E k \in ChromeButtons :
           /\ HasButton(Cur, w, k)
           /\ Commit(button_on_leave(Cur, w, k), "button_leave", w)

RegisterMountingCallback ==
    \E callback \in Callbacks, callback_id \in CallbackIds :
        Commit(register_mounting_callback(Cur, callback, callback_id),
               "register_mounting_callback", None)

MountWindow(w) ==
    /\ life[w] = "live" /\ ready[w] = "new"
    /\ \E callback_id \in CallbackIds :
           Commit(mount_window(Cur, w, callback_id), "mount_window", w)

ActionCloseWindow(w) ==
    /\ life[w] = "live"
    /\ Commit(action_close_window(Cur, w), "action_close_window", w)

CloseWindow(w) ==
    /\ life[w] = "live"
    /\ Commit(remove_window(Cur, w), "close_window", w)

MenuClose(w) ==
    /\ life[w] = "live"
    /\ Commit(menu_close(Cur, w), "menu_close", w)

\* Window.open_window
OpenWindow(w) ==
    /\ life[w] = "live"
    /\ Commit(set_open_state(Cur, w, TRUE), "open_window", w)

\* Window.minimize
Minimize(w) ==
    /\ life[w] = "live"
    /\ Commit(set_open_state(Cur, w, FALSE), "minimize", w)

CloseAll == Commit(close_all_windows(Cur), "close_all_windows", None)
OpenAll == Commit(open_all_windows(Cur), "open_all_windows", None)
MinimizeAll == Commit(minimize_all_windows(Cur), "minimize_all_windows", None)

SnapAll == Commit(snap_all_windows(Cur), "snap_all_windows", None)
UnsnapAll == Commit(unsnap_all_windows(Cur), "unsnap_all_windows", None)
ResetAll == Commit(reset_all_windows(Cur), "reset_all_windows", None)

RegisterWindowbar(b) == Commit(register_windowbar(Cur, b), "register_windowbar", b)
UnregisterWindowbar == Commit(unregister_windowbar(Cur), "unregister_windowbar", None)

\* The window is mounted, laid out and not removed
Usable(w) == life[w] = "live" /\ initialized[w]

\* Window.maximize
Maximize(w) ==
    /\ Usable(w)
    /\ Commit(set_maximize_state(Cur, w, TRUE), "maximize", w)

\* Window.restore
Restore(w) ==
    /\ Usable(w)
    /\ Commit(set_maximize_state(Cur, w, FALSE), "restore", w)

\* Window.enable_snap
EnableSnap(w) ==
    /\ Usable(w)
    /\ Commit(set_snap_state(Cur, w, TRUE), "enable_snap", w)

\* Window.disable_snap
DisableSnap(w) ==
    /\ Usable(w)
    /\ Commit(set_snap_state(Cur, w, FALSE), "disable_snap", w)

ResetSize(w) ==
    /\ Usable(w)
    /\ Commit(reset_size(Cur, w), "reset_size", w)

ResetPosition(w) ==
    /\ Usable(w)
    /\ Commit(reset_position(Cur, w), "reset_position", w)

ResetWindow(w) ==
    /\ Usable(w)
    /\ Commit(reset_window(Cur, w), "reset_window", w)

\* The cell of the Resizer, the bottom right corner of the window
ResizerCell(w) == <<offset[w][1] + size[w][1] - 1, offset[w][2] + size[w][2] - 1>>

\* A button goes down on the Resizer of a window that shows it
ResizerMouseDown(w) ==
    /\ Usable(w) /\ display[w] /\ mouse_captured = <<>>
    /\ ResizerCell(w) \in Screen
    /\ \E button \in Buttons :
           Commit(resizer_on_mouse_down(Cur, w, button, ResizerCell(w)),
                  "resizer_mouse_down", w)

\* The pointer moves: the event goes to the Resizer that captured the mouse
ResizerMouseMove(w) ==
    /\ Usable(w) /\ mouse_captured = <<"Resizer", w>>
    /\ \E screen_offset \in Screen :
           Commit(resizer_on_mouse_move(Cur, w, screen_offset),
                  "resizer_mouse_move", w)

ResizerMouseUp(w) ==
    /\ Usable(w) /\ mouse_captured = <<"Resizer", w>>
    /\ Commit(resizer_on_mouse_up(Cur, w), "resizer_mouse_up", w)

TitleBarMouseDown(w) ==
    /\ Usable(w) /\ display[w] /\ mouse_captured = <<>>
    /\ \E button \in Buttons :
           Commit(titlebar_on_mouse_down(Cur, w, button), "titlebar_mouse_down", w)

TitleBarMouseMove(w) ==
    /\ Usable(w) /\ mouse_captured = <<"TitleBar", w>>
    /\ \E delta \in Deltas :
           /\ <<offset[w][1] + delta[1], offset[w][2] + delta[2]>> \in Reach
           /\ Commit(titlebar_on_mouse_move(Cur, w, delta), "titlebar_mouse_move", w)

TitleBarMouseUp(w) ==
    /\ Usable(w) /\ mouse_captured = <<"TitleBar", w>>
    /\ Commit(titlebar_on_mouse_up(Cur, w), "titlebar_mouse_up", w)

\* The screen refreshes and runs a callback left with call_after_refresh
AfterRefresh(w) ==
    /\ after_refresh[w] > 0
    /\ Commit(after_refresh_callback(Cur, w), "after_refresh", w)

\* The bar is opened, shut or resized: the area left to the windows changes
WindowBarResize ==
    /\ windowbar # None
    /\ \E new_size \in ParentSizes :
           /\ new_size # parent_size
           /\ Commit(windowbar_on_resize(Cur, new_size), "windowbar_resize", None)

Next ==
    \/ \E w \in Wins : Construct(w)
    \/ \E w \in Wins : DomReady(w)
    \/ \E w \in Wins : DomReadyResume(w)
    \/ BarWorker
    \/ \E w \in Wins : AnimationComplete(w)
    \/ \E w \in Wins : Focus(w)
    \/ \E w \in Wins : ActionCloseWindow(w)
    \/ \E w \in Wins : CloseWindow(w)
    \/ \E w \in Wins : MenuClose(w)
    \/ \E w \in Wins : OpenWindow(w)
    \/ \E w \in Wins : Minimize(w)
    \/ CloseAll
    \/ OpenAll
    \/ MinimizeAll
    \/ \E b \in Bars : RegisterWindowbar(b)
    \/ UnregisterWindowbar

Spec == Init /\ [][Next]_vars

\* The animator completes every animation it started and the event loop runs
\* every worker it was given
FairSpec ==
    /\ Spec
    /\ \A w \in Wins : WF_vars(AnimationComplete(w))
    /\ WF_vars(BarWorker)
    /\ \A w \in Wins : WF_vars(DomReadyResume(w))

\* An app whose compose() has already built its first window
Composed ==
    {window_init(Fresh, 1, mode, anim, start) :
        mode \in {"temporary", "permanent"}, anim \in BOOLEAN, start \in BOOLEAN}

InitComposed == \E s \in Composed : StartIn(s)

\* The ways an animator may treat an animation started on an attribute that
\* is still being animated
Animators == {"queue", "latest", "same"}

InitAnimated ==
    \E s \in Composed, a \in Animators : StartIn([s EXCEPT !.animator = a])

\* Open, minimize and close requests that overlap the fades of earlier ones
NextAnimated ==
    \/ \E w \in Wins : Construct(w)
    \/ \E w \in Wins : CloseWindow(w)
    \/ \E w \in Wins : Minimize(w)
    \/ \E w \in Wins : OpenWindow(w)
    \/ CloseAll
    \/ \E w \in Wins : AnimationComplete(w)

SpecAnimated == InitAnimated /\ [][NextAnimated]_vars

\* close_all_windows with a bar that may be bound, around windows that are
\* built and closed one by one
NextCloseAll ==
    \/ \E w \in Wins : Construct(w)
    \/ \E b \in Bars : RegisterWindowbar(b)
    \/ \E w \in Wins : CloseWindow(w)
    \/ CloseAll
    \/ \E w \in Wins : AnimationComplete(w)

SpecCloseAll == InitComposed /\ [][NextCloseAll]_vars

\* An app whose compose() built window 1, with or without a maximize button
WithChrome ==
    {window_init([Fresh EXCEPT !.args[1].allow_maximize = m], 1, mode, anim, TRUE) :
        m \in BOOLEAN, mode \in {"temporary", "permanent"}, anim \in BOOLEAN}

InitChrome == \E s \in WithChrome : StartIn(s)

\* Presses, releases and leaves on the chrome buttons of a mounted window,
\* with a bar that may be bound
NextChrome ==
    \/ \E w \in Wins : DomReady(w)
    \/ \E w \in Wins : DomReadyResume(w)
    \/ BarWorker
    \/ \E b \in Bars : RegisterWindowbar(b)
    \/ \E w \in Wins : AnimationComplete(w)
    \/ \E w \in Wins : AfterRefresh(w)
    \/ \E w \in Wins : ButtonMouseDown(w)
    \/ \E w \in Wins : ButtonMouseUp(w)
    \/ \E w \in Wins : ButtonLeave(w)

SpecChrome == InitChrome /\ [][NextChrome]_vars

\* Close-all calls that may overlap, on windows built around them; a fade
\* that was started does complete
NextOverlap ==
    \/ \E w \in Wins : Construct(w)
    \/ CloseAll
    \/ \E w \in Wins : AnimationComplete(w)

SpecOverlap == InitAnimated /\ [][NextOverlap]_vars

FairOverlap ==
    /\ SpecOverlap
    /\ \A w \in Wins : WF_vars(AnimationComplete(w))

\* The close-all handshake with windows built and closed around it
NextHandshake ==
    \/ \E w \in Wins : Construct(w)
    \/ \E w \in Wins : AnimationComplete(w)
    \/ \E w \in Wins : CloseWindow(w)
    \/ \E w \in Wins : OpenWindow(w)
    \/ CloseAll

SpecHandshake == InitComposed /\ [][NextHandshake]_vars

\* Windows handed to the manager to be mounted through registered callbacks
NextMount ==
    \/ \E w \in Wins : Construct(w)
    \/ RegisterMountingCallback
    \/ \E w \in Wins : MountWindow(w)
    \/ \E w \in Wins : DomReady(w)

SpecMount == InitComposed /\ [][NextMount]_vars

\* Windows that are built by their constructor and registered by hand
NextRegister ==
    \/ \E w \in Wins : Construct(w)
    \/ \E w \in Wins : RegisterWindow(w)
    \/ \E w \in Wins : Focus(w)
    \/ \E w \in Wins : CloseWindow(w)

SpecRegister == InitComposed /\ [][NextRegister]_vars

\* The layer stack of the screen, with windows built, mounted, focused,
\* pressed and closed
NextLayers ==
    \/ \E w \in Wins : Construct(w)
    \/ \E w \in Wins : DomReady(w)
    \/ \E w \in Wins : Focus(w)
    \/ \E w \in Wins : WindowMouseDown(w)
    \/ \E w \in Wins : CloseWindow(w)
    \/ \E w \in Wins : AnimationComplete(w)

SpecLayers == InitComposed /\ [][NextLayers]_vars

\* Focus events around windows that are built and closed, one by one or all
NextFocus ==
    \/ \E w \in Wins : Construct(w)
    \/ \E w \in Wins : Focus(w)
    \/ \E w \in Wins : CloseWindow(w)
    \/ \E w \in Wins : AnimationComplete(w)
    \/ CloseAll

SpecFocus == InitComposed /\ [][NextFocus]_vars

\* The requests the manager passes on to every window, with windows built,
\* laid out and reset around them and a bar that may be bound
NextBulk ==
    \/ \E w \in Wins : Construct(w)
    \/ \E w \in Wins : DomReady(w)
    \/ \E w \in Wins : DomReadyResume(w)
    \/ BarWorker
    \/ \E w \in Wins : AnimationComplete(w)
    \/ \E b \in Bars : RegisterWindowbar(b)
    \/ \E w \in Wins : ResetPosition(w)
    \/ \E w \in Wins : ResetWindow(w)
    \/ OpenAll
    \/ MinimizeAll
    \/ SnapAll
    \/ UnsnapAll
    \/ ResetAll

SpecBulk == InitComposed /\ [][NextBulk]_vars

\* ------------------------------------------------- the geometry of one window
\* Style sheets with a minimum not above the maximum; 0 stands for "not set"
CssChoices ==
    [min : {<<1, 1>>, <<2, 1>>}, max : {<<0, 0>>, <<2, MaxSide>>},
     size : {<<0, 0>>, <<2, 2>>}]

\* Constructor arguments of the window
ArgChoices ==
    [start_snapped : BOOLEAN, starting_horizontal : {"right"},
     starting_vertical : {"bottom"}, allow_maximize : BOOLEAN,
     styles_dict : {<<>>, <<MaxSide, 2>>}]

\* An app whose compose() built window 1 with some style sheet and arguments
Styled ==
    {window_init([Fresh EXCEPT !.css[1] = c, !.args[1] = a],
                 1, "permanent", FALSE, TRUE) :
        c \in CssChoices, a \in ArgChoices}

InitStyled == \E s \in Styled : StartIn(s)

\* First layout, pointer events and the sizing interface of a window
NextGeom ==
    \/ \E w \in Wins : DomReady(w)
    \/ \E w \in Wins : Maximize(w)
    \/ \E w \in Wins : Restore(w)
    \/ \E w \in Wins : EnableSnap(w)
    \/ \E w \in Wins : DisableSnap(w)
    \/ \E w \in Wins : ResetSize(w)
    \/ \E w \in Wins : ResetPosition(w)
    \/ \E w \in Wins : ResetWindow(w)
    \/ \E w \in Wins : ResizerMouseDown(w)
    \/ \E w \in Wins : ResizerMouseMove(w)
    \/ \E w \in Wins : ResizerMouseUp(w)
    \/ \E w \in Wins : TitleBarMouseDown(w)
    \/ \E w \in Wins : TitleBarMouseMove(w)
    \/ \E w \in Wins : TitleBarMouseUp(w)
    \/ \E w \in Wins : AfterRefresh(w)

SpecGeom == InitStyled /\ [][NextGeom]_vars

\* A window that is laid out, moved and snapped while a bar is bound and the
\* bar is opened, shut or resized
NextViewport ==
    \/ \E w \in Wins : DomReady(w)
    \/ \E w \in Wins : DomReadyResume(w)
    \/ BarWorker
    \/ \E b \in Bars : RegisterWindowbar(b)
    \/ WindowBarResize
    \/ \E w \in Wins : Maximize(w)
    \/ \E w \in Wins : EnableSnap(w)
    \/ \E w \in Wins : DisableSnap(w)
    \/ \E w \in Wins : TitleBarMouseDown(w)
    \/ \E w \in Wins : TitleBarMouseMove(w)
    \/ \E w \in Wins : TitleBarMouseUp(w)
    \/ \E w \in Wins : AfterRefresh(w)

SpecViewport == InitStyled /\ [][NextViewport]_vars

\* ------------------------------------------------- the placement of one window
\* Parent sizes and window sizes with the window no larger than the parent
Placements ==
    {pw \in ((1..MaxPlaceSide) \X (1..MaxPlaceSide)) \X
            ((1..MaxPlaceSide) \X (1..MaxPlaceSide)) :
        pw[2][1] <= pw[1][1] /\ pw[2][2] <= pw[1][2]}

\* An app whose compose() built window 1 of some size for some position
Placed ==
    {window_init([Fresh EXCEPT
                     !.parent_size = pw[1],
                     !.css[1] = [DefaultCss EXCEPT !.size = pw[2]],
                     !.args[1] = [DefaultArgs EXCEPT !.starting_horizontal = h,
                                                     !.starting_vertical = v]],
                 1, "permanent", FALSE, TRUE) :
        pw \in Placements, h \in Horizontals, v \in Verticals}

InitPlaced == \E s \in Placed : StartIn(s)

\* The two callers of Window._calculate_starting_position
NextPlace ==
    \/ \E w \in Wins : DomReady(w)
    \/ \E w \in Wins : ResetPosition(w)

SpecPlace == InitPlaced /\ [][NextPlace]_vars

\* An app whose window 1 has had its first layout
LaidOut ==
    {s \in {dom_ready(compose(z, 1), 1) : z \in Styled} : Ok(s) /\ s.initialized[1]}

InitLaidOut == \E s \in LaidOut : StartIn([s EXCEPT !.trace = <<>>])

\* Maximize and restore of a laid-out window that is dragged, snapped and
\* unsnapped in between
NextRestore ==
    \/ \E w \in Wins : Maximize(w)
    \/ \E w \in Wins : Restore(w)
    \/ \E w \in Wins : EnableSnap(w)
    \/ \E w \in Wins : DisableSnap(w)
    \/ \E w \in Wins : TitleBarMouseDown(w)
    \/ \E w \in Wins : TitleBarMouseMove(w)
    \/ \E w \in Wins : TitleBarMouseUp(w)
    \/ \E w \in Wins : AfterRefresh(w)

SpecRestore == InitLaidOut /\ [][NextRestore]_vars

\* ==================================================================== claims
InTrace(ev) == InSeq(ev, lastOp.trace)
Stepped(name, w) == lastOp'.name = name /\ lastOp'.win = w
Before(a, b, seq) == \E i, j \in 1..Len(seq) : i < j /\ seq[i] = a /\ seq[j] = b

\* C1: whenever closing_in_progress is false, the recent focus order holds
\* exactly the windows of the registry map: same length, no window twice, no
\* window that is not registered.
C1_FocusOrderMatchesRegistry ==
    ~closing_in_progress =>
        /\ Len(recent_focus_order) = Len(windows)
        /\ NoDup(recent_focus_order)
        /\ \A w \in SeqSet(recent_focus_order) : Registered(w)

\* C2: at the first idle state after a close_all_windows call, no temporary
\* window registered at the call is still registered, and every permanent
\* window registered at the call is still registered with open_state false.
C2_CloseAllCompletes ==
    caPhase = "idle" =>
        /\ \A w \in caTemp : ~Registered(w)
        /\ \A w \in caPerm : Registered(w) /\ ~open_state[w]

\* C3: after a close_all_windows call, once every started close animation has
\* run its completion callback, the handshake fields are back to idle
\* (closing_in_progress false, temporary count 0, checked-in count 0).
C3_HandshakeReturnsToIdle ==
    (caPhase # "none" /\ \A w \in Wins : pending[w] = <<>>) => Idle

\* C4: constructing a window whose id is already a key of the registry fails
\* with an error and leaves the registry map and the focus order unchanged.
C4_DuplicateIdRejected ==
    [][\A w \in Wins :
          (Stepped("Window", w) /\ HasKey(windows, WinId(w)))
              => /\ lastOp'.err # "none"
                 /\ UNCHANGED <<windows, recent_focus_order>>]_vars

Count(ev, seq) == Cardinality({i \in 1..Len(seq) : seq[i] = ev})
Calls(name, seq) == Cardinality({i \in 1..Len(seq) : seq[i][1] = name})
Removals(q) == Count(TRUE, q)
SingleClose == {"action_close_window", "close_window", "menu_close"}
ModeChecked == {"action_close_window", "menu_close"}

C6_UnregisterAbsentChangesNothing ==
    [][\A w \in Wins :
          ( /\ InSeq(<<"unregister_window", w>>, lastOp'.trace)
            /\ ~HasKey(windows, WinId(w)) )
          => /\ lastOp'.err = "ValueError"
             /\ UNCHANGED <<windows, recent_focus_order, last_focused_window,
                            closing_in_progress, num_of_temporary_windows,
                            checked_in_closing_windows, barQueue>>
             /\ Calls("bar_remove", lastOp'.trace) = 0
             /\ Calls("publish", lastOp'.trace) = 0]_vars

C6_Witness ==
    /\ lastOp.err = "ValueError"
    /\ lastOp.name = "animation_complete"
    /\ lastOp.trace = <<<<"unregister_window", lastOp.win>>>>
    /\ life[lastOp.win] = "removed"

\* C7: a successful unregister_window(w) removes exactly w from the registry
\* map and from the focus order, the other entries keeping their order; it asks
\* the bound bar (if any) exactly once to remove w's button and publishes the
\* window-unregistered signal exactly once with w.
C7_UnregisterRemovesExactlyW ==
    [][\A w \in Wins :
          ( /\ lastOp'.name # "close_all_windows"
            /\ InSeq(<<"unregister_window", w>>, lastOp'.trace)
            /\ lastOp'.err = "none" )
          => /\ Registered(w)
             /\ windows' = ListRemove(windows, w)
             /\ recent_focus_order' = ListRemove(recent_focus_order, w)
             /\ Count(<<"bar_remove", w>>, lastOp'.trace)
                    = IF windowbar # None THEN 1 ELSE 0
             /\ Calls("bar_remove", lastOp'.trace)
                    = IF windowbar # None THEN 1 ELSE 0
             /\ Count(<<"publish", w>>, lastOp'.trace) = 1
             /\ Calls("publish", lastOp'.trace) = 1]_vars

\* The errors change_window_focus_order raises
FocusOrderErrors == {"ValueError(list.remove)", "RuntimeError"}

C9_AtMostOneBar ==
    [][/\ \A b \in Bars :
             (lastOp'.name = "register_windowbar" /\ lastOp'.win = b)
             => IF windowbar # None
                THEN lastOp'.err = "RuntimeError" /\ windowbar' = windowbar
                ELSE lastOp'.err = "none" /\ windowbar' = b
       /\ lastOp'.name = "unregister_windowbar"
             => /\ windowbar' = None
                /\ lastOp'.err = IF windowbar = None THEN "RuntimeError" ELSE "none"
       /\ windowbar' # windowbar
             => lastOp'.name \in {"register_windowbar", "unregister_windowbar"}]_vars

C9_Witness ==
    /\ lastOp.name = "register_windowbar"
    /\ lastOp.err = "RuntimeError"
    /\ windowbar \in Bars /\ windowbar # lastOp.win

C11_SideEffectsAfterAnimation ==
    [][\A w \in Wins :
          /\ (Stepped("minimize", w) /\ open_state[w] /\ display[w] /\ animated[w])
             => /\ display'[w]
                /\ Calls("Minimized", lastOp'.trace) = 0
                /\ Calls("bar_state", lastOp'.trace) = 0
                /\ pending'[w] = Append(pending[w], FALSE)
          /\ (Stepped("minimize", w) /\ open_state[w] /\ display[w] /\ ~animated[w])
             => /\ ~display'[w]
                /\ Count(<<"Minimized", w>>, lastOp'.trace) = 1
                /\ (windowbar # None /\ WinId(w) \in buttons)
                       => Count(<<"bar_state", w, FALSE>>, lastOp'.trace) = 1
          /\ (Stepped("close_window", w) /\ Registered(w) /\ display[w] /\ animated[w])
             => /\ Registered(w)' /\ life'[w] = "live"
                /\ Calls("Closed", lastOp'.trace) = 0
                /\ Calls("unregister_window", lastOp'.trace) = 0
                /\ pending'[w] = Append(pending[w], TRUE)
          /\ (Stepped("close_window", w) /\ Registered(w) /\ display[w] /\ ~animated[w])
             => /\ ~Registered(w)' /\ life'[w] = "removed"
                /\ Count(<<"Closed", w>>, lastOp'.trace) = 1
          /\ (display[w] /\ animated[w] /\ ~display'[w])
             => /\ Stepped("animation_complete", w)
                /\ Count(<<"Minimized", w>>, lastOp'.trace) = 1
          /\ (Registered(w) /\ display[w] /\ animated[w] /\ life'[w] = "removed")
             => /\ Stepped("animation_complete", w)
                /\ Count(<<"Closed", w>>, lastOp'.trace) = 1]_vars

C11_Witness ==
    /\ lastOp.name = "animation_complete"
    /\ animated[lastOp.win]
    /\ ~display[lastOp.win]
    /\ lastOp.trace = <<<<"Minimized", lastOp.win>>>>

\* C12: maximize followed later by restore is an exact round trip. The step
\* that maximizes a window saves the size and offset it had just before; no
\* step taken while it stays maximized (title-bar moves, resize drags, snap
\* changes, repeated maximize calls) changes what was saved; and the step that
\* restores it gives it exactly the saved size and offset. No step of this
\* specification resizes the viewport.
C12_MaximizeRestoreRoundTrip ==
    [][\A w \in Wins :
        /\ (~maximize_state[w] /\ maximize_state'[w]) =>
               saved_size'[w] = size[w] /\ saved_offset'[w] = offset[w]
        /\ (maximize_state[w] /\ maximize_state'[w]) =>
               saved_size'[w] = saved_size[w] /\ saved_offset'[w] = saved_offset[w]
        /\ (maximize_state[w] /\ ~maximize_state'[w]) =>
               size'[w] = saved_size[w] /\ offset'[w] = saved_offset[w]]_vars

\* A window restored after pointer events, smaller than its maximum
C12_Witness ==
    /\ lastOp.name = "restore" /\ lastOp.err = "none"
    /\ pointer_events > 0
    /\ ~maximize_state[lastOp.win]
    /\ size[lastOp.win] = saved_size[lastOp.win]
    /\ size[lastOp.win] # max_size[lastOp.win]
    /\ offset[lastOp.win] = saved_offset[lastOp.win]

\* C13: in every reachable state the saved rectangle of a window (saved_size
\* and saved_offset) is set if and only if its maximize_state is true: unset
\* before the first maximize, set while maximized, unset again after restore.
C13_SavedIffMaximized ==
    \A w \in Wins :
        (saved_size[w] # <<>> /\ saved_offset[w] # <<>>) <=> maximize_state[w]

\* The configured maximum of a window, the parent size where none is configured
ConfiguredMax(w) ==
    << IF css[w].max[1] # 0 THEN css[w].max[1] ELSE parent_size[1],
       IF css[w].max[2] # 0 THEN css[w].max[2] ELSE parent_size[2] >>

\* The size asked for: styles_dict before the style sheet, the maximum if none
RequestedSize(w) ==
    IF args[w].styles_dict # <<>> THEN args[w].styles_dict
    ELSE << IF css[w].size[1] # 0 THEN css[w].size[1] ELSE ConfiguredMax(w)[1],
            IF css[w].size[2] # 0 THEN css[w].size[2] ELSE ConfiguredMax(w)[2] >>

Between(v, lo, hi) == IF v < lo THEN lo ELSE IF v > hi THEN hi ELSE v

\* C14: for a window configured with min <= max, the first layout gives it the
\* requested size clamped into [min, max] (max being the parent size where it
\* is not configured), and after the first layout and after every later step
\* (resize drags, maximize, restore, reset_size, reset_window) its width lies
\* in [min_width, max_width] and its height in [min_height, max_height].
C14_SizeWithinMinMax ==
    [][\A w \in Wins :
        /\ (~initialized[w] /\ initialized'[w]) =>
               /\ min_size'[w] = css[w].min
               /\ max_size'[w] = ConfiguredMax(w)
               /\ \A i \in 1..2 :
                      size'[w][i] = Between(RequestedSize(w)[i], css[w].min[i],
                                            ConfiguredMax(w)[i])
        /\ initialized'[w] =>
               \A i \in 1..2 : /\ min_size'[w][i] <= size'[w][i]
                               /\ size'[w][i] <= max_size'[w][i]]_vars

\* A resize drag that asked for more than the maximum and was held at it
C14_Witness ==
    /\ lastOp.name = "resizer_mouse_move"
    /\ mouse_captured = <<"Resizer", lastOp.win>>
    /\ LET r == resizer[lastOp.win]
       IN  r.size_on_down[1] + (lastOp.trace[1][2] - r.position_on_down[1])
               > max_size[lastOp.win][1]
    /\ size[lastOp.win][1] = max_size[lastOp.win][1]

\* The window is no larger than its parent
Fits(w) == size[w][1] <= parent_size[1] /\ size[w][2] <= parent_size[2]

\* The rectangle of the window lies entirely inside the parent area
Inside(w) ==
    /\ 0 <= offset[w][1] /\ offset[w][1] <= parent_size[1] - size[w][1]
    /\ 0 <= offset[w][2] /\ offset[w][2] <= parent_size[2] - size[w][2]

\* C15: for an initialized window no larger than its parent, after every
\* mouse-move event of a title-bar drag, after every mouse-move event of a
\* resize drag and after the mouse-up that ends it, if snap_state is true then
\* the rectangle of the window lies entirely inside the parent area.
C15_SnappedStaysInside ==
    [][\A w \in Wins :
        ( /\ lastOp'.win = w
          /\ lastOp'.name \in {"titlebar_mouse_move", "resizer_mouse_move",
                               "resizer_mouse_up"}
          /\ initialized'[w] /\ snap_state'[w] /\ Fits(w)' )
        => Inside(w)']_vars

\* The mapping of a starting position to a share of the free space f
PlaceAt(f, where) ==
    IF where \in {"left", "top"} THEN 0
    ELSE IF where \in {"centerleft", "uppermiddle"} THEN f \div 4
    ELSE IF where \in {"center", "middle"} THEN f \div 2
    ELSE IF where \in {"centerright", "lowermiddle"} THEN f - (f \div 4)
    ELSE f

\* C16: for every one of the 25 (horizontal, vertical) starting positions and
\* every parent size and window size with the window no larger than the
\* parent, _calculate_starting_position gives the offset left -> 0,
\* centerleft -> fx // 4, center -> fx // 2, centerright -> fx - fx // 4,
\* right -> fx (fx = parent.w - window.w, the same vertically with fy), and
\* that offset lies in [0, fx] x [0, fy]; for parent 80x24, window 20x10,
\* center/middle the result is (30, 7).
C16_StartingOffset ==
    [][ /\ starting_offset(<<80, 24>>, <<20, 10>>, "center", "middle") = <<30, 7>>
        /\ \A w \in Wins :
              (lastOp'.win = w /\ lastOp'.name \in {"dom_ready", "reset_position"}) =>
                  LET fx == parent_size[1] - starting_size'[w][1]
                      fy == parent_size[2] - starting_size'[w][2]
                  IN  /\ fx >= 0 /\ fy >= 0
                      /\ offset'[w] = <<PlaceAt(fx, args[w].starting_horizontal),
                                        PlaceAt(fy, args[w].starting_vertical)>>
                      /\ 0 <= offset'[w][1] /\ offset'[w][1] <= fx
                      /\ 0 <= offset'[w][2] /\ offset'[w][2] <= fy ]_vars

\* A 1x2 window put right of centre and below the middle of a 6x6 parent
C16_Witness ==
    /\ lastOp.name = "reset_position" /\ lastOp.win = 1
    /\ parent_size = <<6, 6>> /\ starting_size[1] = <<1, 2>>
    /\ args[1].starting_horizontal = "centerright"
    /\ args[1].starting_vertical = "lowermiddle"
    /\ offset[1] = <<4, 3>>

\* C17: during a resize drag the size of the window after any mouse-move
\* event equals clamp(size at mouse-down + (pointer position - pointer
\* position at mouse-down), min, max) in each dimension: the button-down step
\* records the size and the pointer position as the baseline, no step of the
\* drag changes the baseline, and every move sizes the window from the
\* baseline and the pointer position of that event alone. From 20x10 with min
\* 12x6 and max 40x20 a cumulative delta (+5,+5) gives (25,15), and a drag
\* from that baseline with delta (-100,-100) gives (12,6).
C17_ResizeFromBaseline ==
    [][ /\ resized(<<20, 10>>, <<30, 15>>, <<35, 20>>, <<12, 6>>, <<40, 20>>)
               = <<25, 15>>
        /\ resized(<<25, 15>>, <<35, 20>>, <<35 - 100, 20 - 100>>, <<12, 6>>,
                   <<40, 20>>) = <<12, 6>>
        /\ \A w \in Wins :
              /\ (mouse_captured # <<"Resizer", w>> /\ mouse_captured' = <<"Resizer", w>>) =>
                     /\ resizer'[w].size_on_down = size[w]
                     /\ resizer'[w].position_on_down = ResizerCell(w)
              /\ (mouse_captured = <<"Resizer", w>>) =>
                     /\ resizer'[w].size_on_down = resizer[w].size_on_down
                     /\ resizer'[w].position_on_down = resizer[w].position_on_down
              /\ (lastOp'.win = w /\ lastOp'.name = "resizer_mouse_move") =>
                     \A i \in 1..2 :
                        size'[w][i] =
                            Between(resizer[w].size_on_down[i]
                                      + (lastOp'.trace[1][i + 1]
                                           - resizer[w].position_on_down[i]),
                                    min_size[w][i], max_size[w][i]) ]_vars

\* The second move of a drag has left the window at another size than the
\* one it had when the button went down
C17_Witness ==
    /\ lastOp.name = "resizer_mouse_move" /\ pointer_events = 3
    /\ mouse_captured = <<"Resizer", lastOp.win>>
    /\ size[lastOp.win] # resizer[lastOp.win].size_on_down
    /\ size[lastOp.win][1] = resizer[lastOp.win].size_on_down[1]
           + (lastOp.trace[1][2] - resizer[lastOp.win].position_on_down[1])

\* C18: while a window is maximized (maximize_state true), the events of a
\* resize drag on its resizer handle (button down, move, button up) leave the
\* size of the window unchanged. Stated for the windows that have a maximize
\* button, where maximize() completes.
C18_ResizerInertWhileMaximized ==
    [][\A w \in Wins :
        ( /\ maximize_state[w] /\ args[w].allow_maximize
          /\ lastOp'.win = w
          /\ lastOp'.name \in {"resizer_mouse_down", "resizer_mouse_move",
                               "resizer_mouse_up"} )
        => size'[w] = size[w]]_vars

\* C19: after a viewport resize event (the window bar being resized, opened
\* or shut), every initialized window whose snap_state is true is re-clamped
\* so that its rectangle again lies inside its parent area: after the event a
\* snapped window that fits the new area either lies inside it or has a clamp
\* waiting for the next refresh.
C19_ViewportResizeReclamps ==
    [][(lastOp'.name = "windowbar_resize") =>
          \A w \in Wins :
             (life'[w] = "live" /\ initialized'[w] /\ snap_state'[w] /\ Fits(w)')
             => (Inside(w)' \/ after_refresh'[w] > 0)]_vars

\* C20: after reset_window on an initialized window that has been resized by
\* dragging (and never maximized), the size of the window equals the starting
\* size captured at first layout, its offset equals the starting offset of
\* its configured starting position, its snap_state equals start_snapped and
\* its open_state equals start_open.
C20_ResetRestoresStart ==
    [][\A w \in Wins :
        ( /\ lastOp'.win = w /\ lastOp'.name = "reset_window"
          /\ initialized[w] /\ saved_size[w] = <<>> )
        => /\ size'[w] = starting_size[w]
           /\ offset'[w] =
                  <<PlaceAt(parent_size[1] - starting_size[w][1],
                            args[w].starting_horizontal),
                    PlaceAt(parent_size[2] - starting_size[w][2],
                            args[w].starting_vertical)>>
           /\ snap_state'[w] = args[w].start_snapped
           /\ open_state'[w] = start_open[w]]_vars

\* C21: each window posts the Initialized message exactly once in its
\* lifetime: the step of its first layout (_dom_ready) posts it once and marks
\* the window initialized, the mark is never taken back, and no step on a
\* window already initialized (reset_position, reset_window,
\* reset_all_windows or any other) posts it again.
C21_InitializedOnce ==
    [][\A w \in Wins :
        LET n == Count(<<"Initialized", w>>, lastOp'.trace)
        IN  /\ initialized[w] => (initialized'[w] /\ n = 0)
            /\ ~initialized[w] => n = (IF initialized'[w] THEN 1 ELSE 0)
            /\ (~initialized[w] /\ initialized'[w]) =>
                   (lastOp'.name = "dom_ready" /\ lastOp'.win = w)]_vars

\* reset_all_windows has reset a window that was laid out before
C21_Witness ==
    /\ lastOp.name = "reset_all_windows" /\ lastOp.err = "none"
    /\ \E w \in Wins : Registered(w) /\ initialized[w]
    /\ \A w \in Wins : ~InTrace(<<"Initialized", w>>)

\* C22: when a window is destroyed the order of events is: it is removed from
\* the manager's map and focus order (and a bound bar is told to drop its
\* button), then the Closed message is posted, then the widget is removed.
\* Closed and the removal come together, only on a step that leaves the
\* window out of the map and out of the focus order, and Closed is posted at
\* most once per window: only on the one step that takes the window from live
\* to removed, a state it never leaves.
C22_UnregisterThenClosedThenRemove ==
    [][\A w \in Wins :
        LET tr == lastOp'.trace
            closed == Count(<<"Closed", w>>, tr)
        IN  /\ closed <= 1
            /\ closed = Count(<<"remove", w>>, tr)
            /\ closed = (IF life[w] = "live" /\ life'[w] = "removed" THEN 1 ELSE 0)
            /\ life[w] = "removed" => life'[w] = "removed"
            /\ closed = 1 =>
                   /\ Before(<<"unregister_window", w>>, <<"Closed", w>>, tr)
                   /\ Before(<<"Closed", w>>, <<"remove", w>>, tr)
                   /\ ~InSeq(w, windows') /\ ~HasKey(windows', WinId(w))
                   /\ ~InSeq(w, recent_focus_order')
                   /\ windowbar # None =>
                          Before(<<"bar_remove", w>>, <<"Closed", w>>, tr)]_vars

\* A temporary window with a bar bound was destroyed when its fade ended
C22_Witness ==
    /\ lastOp.name = "animation_complete" /\ lastOp.err = "none"
    /\ window_mode[lastOp.win] = "temporary"
    /\ life[lastOp.win] = "removed"
    /\ windowbar # None
    /\ lastOp.trace = << <<"unregister_window", lastOp.win>>,
                         <<"bar_remove", lastOp.win>>,
                         <<"publish", lastOp.win>>,
                         <<"Closed", lastOp.win>>,
                         <<"remove", lastOp.win>> >>

\* No two windows constructed so far share an id
UniqueIds ==
    \A a, b \in Wins :
        (a # b /\ life[a] # "none" /\ life[b] # "none") => WinId(a) # WinId(b)

\* C23: in every reachable state outside a close-all handshake,
\* last_focused_window is either unset or a window that is currently
\* registered, and the manager holds no reference (in the map, in the focus
\* order or in last_focused_window) to a window that was removed. Stated for
\* the states in which no id was given to two windows.
C23_NoReferencePastUnregistration ==
    (~closing_in_progress /\ UniqueIds) =>
        /\ last_focused_window = None \/ Registered(last_focused_window)
        /\ \A w \in Wins :
              life[w] = "removed" =>
                  /\ ~InSeq(w, windows)
                  /\ ~InSeq(w, recent_focus_order)
                  /\ last_focused_window # w

\* C24: outside a close-all handshake (closing_in_progress false), a
\* focus-gain event for a window that is absent from the focus order raises
\* an error, and the failed call leaves the focus order and
\* last_focused_window unchanged.
C24_FocusOfAbsentWindowFails ==
    [][\A w \in Wins :
        ( /\ lastOp'.name = "focus" /\ lastOp'.win = w
          /\ ~closing_in_progress
          /\ ~InSeq(w, recent_focus_order) )
        => /\ lastOp'.err \in FocusOrderErrors
           /\ recent_focus_order' = recent_focus_order
           /\ last_focused_window' = last_focused_window]_vars

\* A closed window gained focus while another window was in the focus order
C24_Witness ==
    /\ lastOp.name = "focus" /\ lastOp.err = "ValueError(list.remove)"
    /\ ~closing_in_progress
    /\ life[lastOp.win] = "removed"
    /\ recent_focus_order # <<>>
    /\ ~InSeq(lastOp.win, recent_focus_order)
    /\ last_focused_window # lastOp.win

\* C25: while closing_in_progress is true, a focus-gain event for a window
\* that has already been unregistered by the mass close never raises an
\* error in change_window_focus_order, whether the focus order is empty or
\* still contains other windows.
\* Stated for the states in which no id was given to two windows.
C25_FocusDuringCloseAllNeverFails ==
    [][\A w \in Wins :
        ( /\ lastOp'.name = "focus" /\ lastOp'.win = w
          /\ closing_in_progress /\ UniqueIds
          /\ life[w] = "removed" /\ ~Registered(w) )
        => lastOp'.err \notin FocusOrderErrors]_vars

\* C26: mount_window(window, callback_id) raises the "no mounting callback
\* registered" error exactly when callback_id is not a key of
\* mounting_callbacks, and then no callback is invoked; when callback_id is
\* registered, exactly that callback is invoked once with the window, and an
\* error of the call is the callback's own.
C26_MountWindowErrorOnlyForUnknownId ==
    [][\A w \in Wins, id \in CallbackIds :
        ( /\ lastOp'.name = "mount_window"
          /\ Head(lastOp'.trace) = <<"mount_window", w, id>> )
        => LET calls == SelectSeq(lastOp'.trace, LAMBDA ev : ev[1] = "callback")
           IN  /\ (lastOp'.err = "KeyError(No mounting callback registered)")
                      <=> (mounting_callbacks[id] = NoCallback)
               /\ mounting_callbacks[id] = NoCallback => calls = <<>>
               /\ mounting_callbacks[id] # NoCallback =>
                      calls = << <<"callback", mounting_callbacks[id], w>> >>]_vars

\* C27: register_mounting_callback raises KeyError if a callback with the
\* same callback_id already exists, and the callback registered before stays
\* in place.
C27_RegisterCallbackRejectsTakenId ==
    [][\A id \in CallbackIds, callback \in Callbacks :
        ( /\ lastOp'.name = "register_mounting_callback"
          /\ Head(lastOp'.trace) = <<"register_mounting_callback", id, callback>>
          /\ mounting_callbacks[id] # NoCallback )
        => /\ lastOp'.err = "KeyError"
           /\ mounting_callbacks' = mounting_callbacks]_vars

\* C28: constructing a Window with an empty id raises before the window is
\* registered, and register_window with a window whose id is empty raises; in
\* both cases the registry map and the focus order are unchanged.
C28_EmptyIdIsRefused ==
    [][\A w \in Wins :
        ( /\ lastOp'.name \in {"Window", "register_window"}
          /\ lastOp'.win = w
          /\ WinId(w) = EmptyId )
        => /\ lastOp'.err = "ValueError"
           /\ windows' = windows
           /\ recent_focus_order' = recent_focus_order
           /\ life'[w] = "none"]_vars

\* register_window refused a window with an empty id while other windows
\* were registered
C28_Witness ==
    /\ lastOp.name = "register_window"
    /\ WinId(lastOp.win) = EmptyId
    /\ lastOp.err = "ValueError"
    /\ Len(windows) >= 2
    /\ Len(recent_focus_order) >= 2

\* The steps that call bring_forward on window w and come back without error
BroughtForward(op, w) ==
    op.name \in {"focus", "window_mouse_down"} /\ op.win = w /\ op.err = "none"
Without(seq, x) == SelectSeq(seq, LAMBDA y : y # x)

\* C29: bring_forward(w) on a mounted window moves w's layer to the last (top)
\* position of the screen's layer stack, keeps the relative order of all
\* other layers and leaves the stack a permutation of what it was (no layer
\* added, lost or duplicated); a second call right after the first leaves
\* the stack as the first call left it. The layer names of distinct windows
\* are distinct: layer_index comes from a counter that only increases.
C29_BringForwardMovesLayerToTop ==
    [][/\ \A w \in Wins :
            (HasScreen(Cur, w) /\ BroughtForward(lastOp', w)) =>
                /\ layers' # <<>>
                /\ layers'[Len(layers')] = styles_layer[w]
                /\ Without(layers', styles_layer[w]) = Without(layers, styles_layer[w])
                /\ Len(layers') = Len(layers)
                /\ \A x \in SeqSet(layers) \cup SeqSet(layers') :
                       Count(x, layers') = Count(x, layers)
                /\ BroughtForward(lastOp, w) => layers' = layers
       /\ current_layer' >= current_layer
       /\ \A a, b \in Wins :
            (a # b /\ life'[a] # "none" /\ life'[b] # "none") =>
                /\ layer_index'[a] # layer_index'[b]
                /\ LayerName(layer_index'[a]) # LayerName(layer_index'[b])]_vars

\* A press on a mounted window that was not on top brought its layer over the
\* layer of a window built after it
C29_Witness ==
    /\ lastOp.name = "window_mouse_down" /\ lastOp.err = "none"
    /\ Len(layers) >= 3
    /\ layers[Len(layers)] = styles_layer[lastOp.win]
    /\ \E v \in Wins : /\ HasScreen(Cur, v)
                        /\ layer_index[v] > layer_index[lastOp.win]
                        /\ InSeq(styles_layer[v], layers)

BulkRequests == {"open_all_windows", "minimize_all_windows", "snap_all_windows",
                 "unsnap_all_windows", "reset_all_windows"}

\* C30: none of open_all_windows, minimize_all_windows, snap_all_windows,
\* unsnap_all_windows and reset_all_windows unregisters or removes a window or
\* touches the handshake fields: the registered windows and the three
\* handshake fields are the same after the call, and after the animation
\* callbacks it started, as before. After minimize_all_windows every
\* registered window has open_state false; after snap_all_windows /
\* unsnap_all_windows every registered window has snap_state true / false.
C30_BulkRequestsOnlyBroadcast ==
    [][/\ ( \/ lastOp'.name \in BulkRequests
            \/ /\ lastOp'.name = "animation_complete"
               /\ Head(pending[lastOp'.win]) = FALSE )
          => /\ windows' = windows
             /\ life' = life
             /\ closing_in_progress' = closing_in_progress
             /\ num_of_temporary_windows' = num_of_temporary_windows
             /\ checked_in_closing_windows' = checked_in_closing_windows
       /\ lastOp'.name = "minimize_all_windows"
          => \A w \in SeqSet(windows') : open_state'[w] = FALSE
       /\ lastOp'.name = "snap_all_windows"
          => \A w \in SeqSet(windows') : snap_state'[w] = TRUE
       /\ lastOp'.name = "unsnap_all_windows"
          => \A w \in SeqSet(windows') : snap_state'[w] = FALSE]_vars

\* C31: whenever a bar is bound and no add-button or remove-button work is
\* pending, the bar holds a button for each registered window that has
\* completed its first layout, and no button for a window that is not
\* registered; in particular for a bar registered after some windows are
\* already ready.  Stated for the states in which no id was given to two
\* windows.
C31_ButtonsMatchReadyWindows ==
    (windowbar # None /\ barQueue = <<>> /\ UniqueIds) =>
        /\ \A w \in Wins :
               (Registered(w) /\ ready[w] = "done") => WinId(w) \in buttons
        /\ \A id \in buttons : \E w \in Wins : Registered(w) /\ WinId(w) = id

C33_CloseAllRequestsEachWindowOnce ==
    [][(lastOp'.name = "close_all_windows" /\ UniqueIds) =>
        \A w \in Wins :
            LET removes == Count(<<"request", "remove_window", w>>, lastOp'.trace)
                closes == Count(<<"request", "open_state", w>>, lastOp'.trace)
            IN  /\ (Registered(w) /\ window_mode[w] = "temporary")
                       => (removes = 1 /\ closes = 0)
                /\ (Registered(w) /\ window_mode[w] = "permanent")
                       => (removes = 0 /\ closes = 1)
                /\ ~Registered(w) => (removes = 0 /\ closes = 0)]_vars

\* C34: a chrome button's action (close, minimize, toggle maximize) fires on
\* a mouse-up if and only if a left-button mouse-down occurred on that button
\* and no leave and no other mouse-up occurred on it since, and on no other
\* event; after any mouse-up or leave the button is back in its unpressed
\* state.
C34_ButtonFiresOnlyOnCompletedClick ==
    [][\A w \in Wins, k \in ChromeButtons :
        LET fired == InSeq(<<"action", k, w>>, lastOp'.trace)
            on_this == lastOp'.win = w /\ Head(lastOp'.trace)[2] = k
        IN  /\ fired => (lastOp'.name = "button_mouse_up" /\ on_this)
            /\ (lastOp'.name = "button_mouse_up" /\ on_this) => (fired <=> armed[w][k])
            /\ (lastOp'.name \in {"button_mouse_up", "button_leave"} /\ on_this)
                   => chrome'[w][k] = NewButton]_vars

\* C35: in every reachable state the checked-in count does not exceed the
\* temporary count recorded by close_all_windows, and whenever
\* closing_in_progress is false both counts are 0; for any sequence of
\* close_all_windows, registrations and unregistrations.  Stated for the
\* states in which no id was given to two windows.
C35_CheckedInWithinTemporaryCount ==
    UniqueIds =>
        /\ checked_in_closing_windows <= num_of_temporary_windows
        /\ ~closing_in_progress =>
               (checked_in_closing_windows = 0 /\ num_of_temporary_windows = 0)

\* C36: when close_all_windows is called a second time while the handshake
\* of a first call is in flight (some temporary windows checked in, others
\* still fading out), the handshake still terminates: closing_in_progress
\* becomes false with both counts 0.
C36_OverlappingCloseAllTerminates ==
    (caOverlap /\ lastOp.name = "close_all_windows" /\ lastOp.err = "none")
        ~> ( /\ ~closing_in_progress
             /\ checked_in_closing_windows = 0
             /\ num_of_temporary_windows = 0 )

C39_MaximizeRestoreIdempotent ==
    [][\A w \in Wins :
        /\ (Stepped("maximize", w) /\ maximize_state[w])
           => /\ saved_size'[w] = saved_size[w]
              /\ saved_offset'[w] = saved_offset[w]
              /\ maximize_state'[w]
        /\ (Stepped("restore", w) /\ ~maximize_state[w])
           => /\ size'[w] = size[w]
              /\ offset'[w] = offset[w]
              /\ ~maximize_state'[w]
              /\ lastOp'.err = "none"]_vars

C39_Witness ==
    /\ lastOp.name = "restore"
    /\ lastOp.err = "none"
    /\ ~maximize_state[lastOp.win]
    /\ saved_size[lastOp.win] = <<>>
    /\ ready[lastOp.win] = "done"

\* C40: after restore on an initialized window whose snap_state is true and
\* which fits its parent, the window's rectangle lies inside the parent
\* area, whatever happened before: also for a window moved partly outside
\* the parent while unsnapped, then maximized, snapped while maximized and
\* then restored.
C40_RestoredSnappedWindowInside ==
    [][\A w \in Wins :
        ( /\ Stepped("restore", w) /\ lastOp'.err = "none"
          /\ maximize_state[w] /\ ~maximize_state'[w] /\ initialized'[w]
          /\ snap_state'[w] /\ Fits(w)' )
        => Inside(w)']_vars

====
